---- MODULE Spec2Model ----
(***************************************************************************)
(* Trading & account ledger of UTD-Kiwi-Menu: buy_to_portfolio and         *)
(* sell_from_portfolio (app/service/portfolio_service.py) and add_user,    *)
(* delete_user, change_role (app/service/user_service.py) over the         *)
(* Directory functions of app/data_access.py and app/db.py.                *)
(*                                                                         *)
(* Every Directory function opens its own session and commits on its own,  *)
(* so a service call is a sequence of separately committed Directory       *)
(* steps.  Each step is one action; the callers interleave at these steps. *)
(* Money is kept in whole currency units (the prices of the default table  *)
(* are whole numbers).  An optional value (Python None or a value) is the  *)
(* empty or the one-element sequence.                                      *)
(***************************************************************************)
EXTENDS Integers, Sequences, FiniteSets, TLC

\* ------------------------------------------------------------------ bounds
\* buy and sell calls started in one behaviour
MaxCalls == 2

\* add_user, delete_user and change_role calls started in one behaviour
MaxAdminCalls == 3

\* concurrent callers (threads / requests)
Callers == {1, 2}

None == <<>>

Some(x) == <<x>>

\* ------------------------------------------------------- string conversions
\* str.strip() on the strings the model feeds in
Strip(s) ==
  CASE s = " alice " -> "alice"
    [] s = " pw " -> "pw"
    [] s = " carol " -> "carol"
    [] s = "  " -> ""
    [] OTHER -> s

\* str.upper() on the symbols the model feeds in
Upper(s) ==
  CASE s = "aapl" -> "AAPL"
    [] s = "zzzz" -> "ZZZZ"
    [] OTHER -> s

\* ------------------------------------------------------------- price oracle
DefaultPriceMap ==
  [t \in {"AAPL", "GOOGL", "MSFT", "TSLA", "AMZN", "NVDA", "META", "NFLX", "SPOT", "UBER"} |->
     CASE t = "AAPL" -> 175
       [] t = "GOOGL" -> 140
       [] t = "MSFT" -> 410
       [] t = "TSLA" -> 250
       [] t = "AMZN" -> 145
       [] t = "NVDA" -> 450
       [] t = "META" -> 325
       [] t = "NFLX" -> 400
       [] t = "SPOT" -> 180
       [] t = "UBER" -> 65]

\* ------------------------------------------------------------------- state
VARIABLES
  users,        \* username -> [balance, role, password] (table users)
  portfolios,   \* portfolio id -> [owner]               (table portfolios)
  investments,  \* <<portfolio id, ticker>> -> quantity  (table investments)
  securities,   \* registered tickers                    (table securities)
  ledger,       \* sequence of transactions              (table transactions)
  pc,           \* caller -> position in its call
  args,         \* caller -> arguments of its call
  loc,          \* caller -> local variables of its call
  result,       \* caller -> outcome of its call
  pre,          \* caller -> Directory state when its call started
  last,         \* the successful buy or add_user that was the latest call to return, if any
  ncalls,       \* calls started so far
  initial,      \* the Directory state the behaviour started in
  current_user, \* the logged-in user of the process (module variable _current_user)
  test_price_map \* the price override (module variable _TEST_PRICE_MAP)

dbvars == <<users, portfolios, investments, securities, ledger>>

vars == <<users, portfolios, investments, securities, ledger,
          pc, args, loc, result, pre, last, ncalls, initial, current_user, test_price_map>>

\* get_price_map laying the override over the default table
get_price_map_Merged ==
  IF test_price_map # None
  THEN [t \in (DOMAIN DefaultPriceMap) \cup (DOMAIN test_price_map[1]) |->
          IF t \in DOMAIN test_price_map[1] THEN test_price_map[1][t] ELSE DefaultPriceMap[t]]
  ELSE DefaultPriceMap

\* get_price_map(): the override if one is set, else the default table
get_price_map ==
  IF test_price_map # None THEN test_price_map[1] ELSE DefaultPriceMap

\* ------------------------------------------------------- function helpers
Put(f, k, v) == [x \in (DOMAIN f) \cup {k} |-> IF x = k THEN v ELSE f[x]]

Remove(f, k) == [x \in (DOMAIN f) \ {k} |-> f[x]]

Snapshot == [users |-> users, portfolios |-> portfolios, investments |-> investments,
             securities |-> securities, ledger |-> ledger]

NoArgs == [op |-> "none"]

NoLoc == [user |-> None, symbol |-> "", current_holdings |-> 0,
          sale_price |-> 0, write_failed |-> FALSE, role |-> "",
          liquidating |-> FALSE, todo |-> {}, report |-> << >>, owner |-> "",
          price_map |-> << >>]

NoPre == [users |-> << >>, portfolios |-> << >>, investments |-> << >>,
          securities |-> {}, ledger |-> << >>]

\* bcrypt.hashpw(password, gensalt()): a digest that starts with "$2" and
\* verifies against password only
hash_password(password) == <<"$2b$", password>>

\* a stored credential is a bcrypt digest <<"$2b$", password>> or, for a row
\* that was not written by create_new_user, the one-element <<text>>
IsHashed(stored) == Len(stored) = 2 /\ stored[1] = "$2b$"

\* str.startswith("$2") on the passwords the model feeds in
StartsWithDollar2(password) == password \in {"$2x"}

\* create_new_user: a password that starts with "$2" is stored as it is, any
\* other is hashed
StoredPassword(password) ==
  IF StartsWithDollar2(password) THEN <<password>> ELSE hash_password(password)

\* check_password(password, hashed): bcrypt.checkpw, which raises on a stored
\* text that is not a digest; the exception is caught and gives False
check_password(password, hashed) ==
  IF password = "" \/ hashed = <<"">> THEN FALSE
  ELSE IF IsHashed(hashed) THEN hashed[2] = password
  ELSE FALSE

\* a row of the users table
UserModel(password, balance, role) ==
  [balance |-> balance, role |-> role, password |-> password]

\* ------------------------------------------------------- Directory: reads
query_user(username) ==
  IF username \in DOMAIN users THEN Some(users[username]) ELSE None

query_portfolio(pid) ==
  IF pid \in DOMAIN portfolios THEN Some(portfolios[pid]) ELSE None

get_investment(portfolio_id, ticker) ==
  IF ticker \notin securities THEN None
  ELSE IF <<portfolio_id, ticker>> \in DOMAIN investments
       THEN Some(investments[<<portfolio_id, ticker>>])
       ELSE None

\* ------------------------------------------------------ Directory: writes
\* update_user_balance writing the new balance to every row
update_user_balance_everyone(username, new_balance) ==
  IF username \in DOMAIN users
  THEN [u \in DOMAIN users |-> [users[u] EXCEPT !.balance = new_balance]]
  ELSE users

\* the users table after update_user_balance(username, new_balance) committed
update_user_balance(username, new_balance) ==
  IF username \in DOMAIN users
  THEN [users EXCEPT ![username].balance = new_balance]
  ELSE users

\* update_investment without the delete of a row whose quantity reaches 0
update_investment_keep_zero(portfolio_id, ticker, quantity) ==
  LET key == <<portfolio_id, ticker>> IN
  IF ticker \notin securities THEN investments
  ELSE IF key \in DOMAIN investments
       THEN [investments EXCEPT ![key] = quantity]
       ELSE IF quantity > 0 /\ portfolio_id \in DOMAIN portfolios
            THEN Put(investments, key, quantity)
            ELSE investments

\* the investments table after update_investment(portfolio_id, ticker, quantity)
update_investment(portfolio_id, ticker, quantity) ==
  LET key == <<portfolio_id, ticker>> IN
  IF ticker \notin securities THEN investments
  ELSE IF key \in DOMAIN investments
       THEN IF quantity <= 0 THEN Remove(investments, key)
            ELSE [investments EXCEPT ![key] = quantity]
       ELSE IF quantity > 0 /\ portfolio_id \in DOMAIN portfolios
            THEN Put(investments, key, quantity)
            ELSE investments

\* session.query(UserModel).filter_by(role="admin").count()
admin_count == Cardinality({u \in DOMAIN users : users[u].role = "admin"})

\* the tables after session.delete(user_model) and commit: the user's portfolios,
\* their investments and the transactions of the user and of those portfolios
\* go with the user (cascade)
PortfoliosOf(username) == {p \in DOMAIN portfolios : portfolios[p].owner = username}

UsersAfterDelete(username) == Remove(users, username)

PortfoliosAfterDelete(username) ==
  [p \in (DOMAIN portfolios) \ PortfoliosOf(username) |-> portfolios[p]]

InvestmentsAfterDelete(username) ==
  [k \in {j \in DOMAIN investments : j[1] \notin PortfoliosOf(username)} |-> investments[k]]

KeptTransaction(t, username, gone) == t.user # username /\ t.portfolio \notin gone

LedgerAfterDelete(username) ==
  LET gone == PortfoliosOf(username)
      Keep(t) == KeptTransaction(t, username, gone)
  IN SelectSeq(ledger, Keep)

\* the row record_transaction adds
TransactionModel(username, portfolio_id, ticker, transaction_type, quantity, price) ==
  [type |-> IF transaction_type = "BUY" THEN "BUY" ELSE "SELL",
   user |-> username, portfolio |-> portfolio_id, security |-> ticker,
   quantity |-> quantity, price |-> price]

\* --------------------------------------------------------------- results
Done(c, r) ==
  /\ pc' = [pc EXCEPT ![c] = "done"]
  /\ result' = [result EXCEPT ![c] = r]

Goto(c, label) ==
  /\ pc' = [pc EXCEPT ![c] = label]
  /\ UNCHANGED result

\* ------------------------------------------- buy_to_portfolio / sell_from_portfolio
\* ValidateTrade without the check of the sale price
ValidateTrade_AnySalePrice(a) ==
  IF Strip(a.username) = "" THEN "ValidationException"
  ELSE IF Strip(a.symbol) = "" THEN "ValidationException"
  ELSE IF a.qty <= 0 THEN "ValidationException"
  ELSE "ok"

\* the input validation both functions start with
ValidateTrade(a) ==
  IF Strip(a.username) = "" THEN "ValidationException"
  ELSE IF Strip(a.symbol) = "" THEN "ValidationException"
  ELSE IF a.qty <= 0 THEN "ValidationException"
  ELSE IF a.op = "SELL" /\ a.sale_price # None /\ a.sale_price[1] < 0
       THEN "ValidationException"
  ELSE "ok"

\* a caller enters buy_to_portfolio or sell_from_portfolio with arguments a
TradeStart(c, a) ==
  /\ pc[c] = "idle"
  /\ ncalls < MaxCalls
  /\ ncalls' = ncalls + 1
  /\ args' = [args EXCEPT ![c] = a]
  /\ pre' = [pre EXCEPT ![c] = Snapshot]
  /\ IF ValidateTrade(a) # "ok"
     THEN Done(c, ValidateTrade(a))
     ELSE Goto(c, "query_user")
  /\ UNCHANGED <<dbvars, loc, last, initial, current_user, test_price_map>>

\* user = db.query_user(username.strip())
QueryUser(c) ==
  /\ pc[c] = "query_user"
  /\ LET user == query_user(Strip(args[c].username)) IN
     IF user = None
     THEN Done(c, "UserNotFoundException") /\ UNCHANGED loc
     ELSE Goto(c, "query_portfolio") /\ loc' = [loc EXCEPT ![c].user = user]
  /\ UNCHANGED <<dbvars, args, pre, last, ncalls, initial, current_user, test_price_map>>

\* QueryPortfolio with the price map looked up before the ownership check
QueryPortfolio_PriceFirst(c) ==
  /\ pc[c] = "query_portfolio"
  /\ LET portfolio == query_portfolio(args[c].portfolio_id)
         symbol == Upper(Strip(args[c].symbol))
     IN
     IF portfolio = None
     THEN Done(c, "PortfolioNotFoundException") /\ UNCHANGED loc
     ELSE IF symbol \notin DOMAIN get_price_map
     THEN Done(c, "SecurityNotAvailableException") /\ UNCHANGED loc
     ELSE IF portfolio[1].owner # Strip(args[c].username)
     THEN Done(c, "AuthorizationException") /\ UNCHANGED loc
     ELSE /\ Goto(c, "security_query")
          /\ loc' = [loc EXCEPT ![c].symbol = symbol, ![c].price_map = get_price_map]
  /\ UNCHANGED <<dbvars, args, pre, last, ncalls, initial, current_user, test_price_map>>

\* portfolio = db.query_portfolio(portfolio_id), then the ownership check and
\* the lookup of the normalised symbol in the price map
QueryPortfolio(c) ==
  /\ pc[c] = "query_portfolio"
  /\ LET portfolio == query_portfolio(args[c].portfolio_id)
         symbol == Upper(Strip(args[c].symbol))
     IN
     IF portfolio = None
     THEN Done(c, "PortfolioNotFoundException") /\ UNCHANGED loc
     ELSE IF portfolio[1].owner # Strip(args[c].username)
     THEN Done(c, "AuthorizationException") /\ UNCHANGED loc
     ELSE IF symbol \notin DOMAIN get_price_map
     THEN Done(c, "SecurityNotAvailableException") /\ UNCHANGED loc
     ELSE /\ Goto(c, "security_query")
          /\ loc' = [loc EXCEPT ![c].symbol = symbol, ![c].price_map = get_price_map]
  /\ UNCHANGED <<dbvars, args, pre, last, ncalls, initial, current_user, test_price_map>>

\* AfterSecurity without the check of the funds
AfterSecurity_NoFundsCheck(c) ==
  IF args[c].op = "BUY"
  THEN Goto(c, "update_user_balance")
  ELSE Goto(c, "get_investment")

\* what follows db.get_or_create_security: buy computes the cost and checks the
\* funds against the user it read at the start; sell goes on to read the holdings
AfterSecurity(c) ==
  IF args[c].op = "BUY"
  THEN IF loc[c].user[1].balance < loc[c].price_map[loc[c].symbol] * args[c].qty
       THEN Done(c, "InsufficientFundsException")
       ELSE Goto(c, "update_user_balance")
  ELSE Goto(c, "get_investment")

\* get_or_create_security: the query for the ticker
SecurityQuery(c) ==
  /\ pc[c] = "security_query"
  /\ IF loc[c].symbol \in securities
     THEN AfterSecurity(c)
     ELSE Goto(c, "security_insert")
  /\ UNCHANGED <<dbvars, args, loc, pre, last, ncalls, initial, current_user, test_price_map>>

\* get_or_create_security: the insert and commit of a ticker the query did not
\* find; the ticker column is unique, a second insert of it raises
SecurityInsert(c, fail) ==
  /\ pc[c] = "security_insert"
  /\ IF fail \/ loc[c].symbol \in securities
     THEN Done(c, "DataAccessException") /\ UNCHANGED securities
     ELSE AfterSecurity(c) /\ securities' = securities \cup {loc[c].symbol}
  /\ loc' = [loc EXCEPT ![c].write_failed = @ \/ fail]
  /\ UNCHANGED <<users, portfolios, investments, ledger, args, pre, last, ncalls, initial, current_user, test_price_map>>

\* GetInvestment with the sale priced by the price map whatever sale_price is
GetInvestment_OraclePrice(c) ==
  /\ pc[c] = "get_investment"
  /\ LET investment == get_investment(args[c].portfolio_id, loc[c].symbol)
         current_holdings == IF investment # None THEN investment[1] ELSE 0
         sale_price == loc[c].price_map[loc[c].symbol]
     IN
     IF args[c].op = "SELL"
     THEN IF current_holdings < args[c].qty
          THEN Done(c, "InsufficientSharesException") /\ UNCHANGED loc
          ELSE /\ Goto(c, "update_user_balance")
               /\ loc' = [loc EXCEPT ![c].current_holdings = current_holdings,
                                     ![c].sale_price = sale_price]
     ELSE /\ Goto(c, "update_investment")
          /\ loc' = [loc EXCEPT ![c].current_holdings = current_holdings]
  /\ UNCHANGED <<dbvars, args, pre, last, ncalls, initial, current_user, test_price_map>>

\* GetInvestment without the check of the shares held
GetInvestment_NoSharesCheck(c) ==
  /\ pc[c] = "get_investment"
  /\ LET investment == get_investment(args[c].portfolio_id, loc[c].symbol)
         current_holdings == IF investment # None THEN investment[1] ELSE 0
         sale_price == IF args[c].sale_price = None
                       THEN loc[c].price_map[loc[c].symbol]
                       ELSE args[c].sale_price[1]
     IN
     IF args[c].op = "SELL"
     THEN /\ Goto(c, "update_user_balance")
          /\ loc' = [loc EXCEPT ![c].current_holdings = current_holdings,
                                ![c].sale_price = sale_price]
     ELSE /\ Goto(c, "update_investment")
          /\ loc' = [loc EXCEPT ![c].current_holdings = current_holdings]
  /\ UNCHANGED <<dbvars, args, pre, last, ncalls, initial, current_user, test_price_map>>

\* investment = db.get_investment(portfolio_id, symbol); sell checks the shares
GetInvestment(c) ==
  /\ pc[c] = "get_investment"
  /\ LET investment == get_investment(args[c].portfolio_id, loc[c].symbol)
         current_holdings == IF investment # None THEN investment[1] ELSE 0
         sale_price == IF args[c].sale_price = None
                       THEN loc[c].price_map[loc[c].symbol]
                       ELSE args[c].sale_price[1]
     IN
     IF args[c].op = "SELL"
     THEN IF current_holdings < args[c].qty
          THEN Done(c, "InsufficientSharesException") /\ UNCHANGED loc
          ELSE /\ Goto(c, "update_user_balance")
               /\ loc' = [loc EXCEPT ![c].current_holdings = current_holdings,
                                     ![c].sale_price = sale_price]
     ELSE /\ Goto(c, "update_investment")
          /\ loc' = [loc EXCEPT ![c].current_holdings = current_holdings]
  /\ UNCHANGED <<dbvars, args, pre, last, ncalls, initial, current_user, test_price_map>>

\* db.update_user_balance(username.strip(), new_balance); its return value is
\* not looked at, a failed write is swallowed by update_user_balance itself
UpdateUserBalance(c, fail) ==
  /\ pc[c] = "update_user_balance"
  /\ LET new_balance ==
           IF args[c].op = "BUY"
           THEN loc[c].user[1].balance - loc[c].price_map[loc[c].symbol] * args[c].qty
           ELSE loc[c].user[1].balance + loc[c].sale_price * args[c].qty
     IN users' = IF fail THEN users
                 ELSE update_user_balance(Strip(args[c].username), new_balance)
  /\ Goto(c, IF args[c].op = "BUY" THEN "get_investment" ELSE "update_investment")
  /\ loc' = [loc EXCEPT ![c].write_failed = @ \/ fail]
  /\ UNCHANGED <<portfolios, investments, securities, ledger, args, pre, last, ncalls, initial, current_user, test_price_map>>

\* UpdateInvestment writing the traded quantity instead of the new holdings
UpdateInvestment_Overwrite(c, fail) ==
  /\ pc[c] = "update_investment"
  /\ investments' = IF fail THEN investments
                    ELSE update_investment(args[c].portfolio_id, loc[c].symbol, args[c].qty)
  /\ Goto(c, "record_transaction")
  /\ loc' = [loc EXCEPT ![c].write_failed = @ \/ fail]
  /\ UNCHANGED <<users, portfolios, securities, ledger, args, pre, last, ncalls, initial, current_user, test_price_map>>

\* db.update_investment(portfolio_id, symbol, new_holdings); return value ignored
UpdateInvestment(c, fail) ==
  /\ pc[c] = "update_investment"
  /\ LET new_holdings ==
           IF args[c].op = "BUY"
           THEN loc[c].current_holdings + args[c].qty
           ELSE loc[c].current_holdings - args[c].qty
     IN investments' = IF fail THEN investments
                       ELSE update_investment(args[c].portfolio_id, loc[c].symbol, new_holdings)
  /\ Goto(c, "record_transaction")
  /\ loc' = [loc EXCEPT ![c].write_failed = @ \/ fail]
  /\ UNCHANGED <<users, portfolios, securities, ledger, args, pre, last, ncalls, initial, current_user, test_price_map>>

\* db.record_transaction(username.strip(), portfolio_id, symbol, type, qty, price)
\* and the return (True, "ok")
RecordTransaction(c, fail) ==
  /\ pc[c] = "record_transaction"
  /\ LET price == IF args[c].op = "BUY" THEN loc[c].price_map[loc[c].symbol]
                  ELSE loc[c].sale_price
     IN
     IF Strip(args[c].username) \notin DOMAIN users
     THEN Done(c, "UserNotFoundException") /\ UNCHANGED ledger
     ELSE IF args[c].portfolio_id \notin DOMAIN portfolios
     THEN Done(c, "PortfolioNotFoundException") /\ UNCHANGED ledger
     ELSE IF fail \/ loc[c].symbol \notin securities
     THEN Done(c, "DataAccessException") /\ UNCHANGED ledger
     ELSE /\ Done(c, "ok")
          /\ ledger' = Append(ledger,
               TransactionModel(Strip(args[c].username), args[c].portfolio_id,
                                loc[c].symbol, args[c].op, args[c].qty, price))
  /\ loc' = [loc EXCEPT ![c].write_failed = @ \/ fail]
  /\ UNCHANGED <<users, portfolios, investments, securities, args, pre, last, ncalls, initial, current_user, test_price_map>>

\* ------------------------------------- add_user / delete_user / change_role
\* ValidateAdmin without the check of the role
ValidateAdmin_AnyRole(a) ==
  IF Strip(a.username) = "" THEN "InvalidUsernameException"
  ELSE IF a.op = "add_user" /\ Strip(a.password) = "" THEN "InvalidPasswordException"
  ELSE "ok"

\* the input validation of the three user_service functions
ValidateAdmin(a) ==
  IF Strip(a.username) = "" THEN "InvalidUsernameException"
  ELSE IF a.op = "add_user" /\ Strip(a.password) = "" THEN "InvalidPasswordException"
  ELSE IF a.op \in {"add_user", "change_role"} /\ a.role \notin {"user", "admin"}
       THEN "InvalidRoleException"
  ELSE "ok"

\* a caller enters add_user, delete_user or change_role with arguments a
AdminStart(c, a) ==
  /\ pc[c] = "idle"
  /\ ncalls < MaxAdminCalls
  /\ ncalls' = ncalls + 1
  /\ args' = [args EXCEPT ![c] = a]
  /\ pre' = [pre EXCEPT ![c] = Snapshot]
  /\ IF ValidateAdmin(a) # "ok"
     THEN Done(c, ValidateAdmin(a))
     ELSE Goto(c, CASE a.op = "add_user" -> "add_query"
                    [] a.op = "delete_user" -> "delete_query"
                    [] a.op = "change_role" -> "role_query")
  /\ UNCHANGED <<dbvars, loc, last, initial, current_user, test_price_map>>

\* add_user: existing_user = db.query_user(username)
AddUserQuery(c) ==
  /\ pc[c] = "add_query"
  /\ IF query_user(Strip(args[c].username)) # None
     THEN Done(c, "UniqueConstraintError")
     ELSE Goto(c, "add_create")
  /\ UNCHANGED <<dbvars, args, loc, pre, last, ncalls, initial, current_user, test_price_map>>

\* AddUserCreate writing the row whether or not the username is taken
AddUserCreate_NoUniqueCheck(c) ==
  /\ pc[c] = "add_create"
  /\ LET username == Strip(args[c].username)
         password == Strip(args[c].password)
     IN
     /\ Done(c, "ok")
     /\ users' = Put(users, username, UserModel(StoredPassword(password), 0, args[c].role))
  /\ UNCHANGED <<portfolios, investments, securities, ledger, args, loc, pre, last, ncalls, initial, current_user, test_price_map>>

\* add_user: db.create_new_user(User(username, password, ..., 0.0, role)); the
\* username column is unique
AddUserCreate(c) ==
  /\ pc[c] = "add_create"
  /\ LET username == Strip(args[c].username)
         password == Strip(args[c].password)
     IN
     IF username \in DOMAIN users
     THEN Done(c, "UniqueConstraintError") /\ UNCHANGED users
     ELSE /\ Done(c, "ok")
          /\ users' = Put(users, username, UserModel(StoredPassword(password), 0, args[c].role))
  /\ UNCHANGED <<portfolios, investments, securities, ledger, args, loc, pre, last, ncalls, initial, current_user, test_price_map>>

\* db.delete_user: the query for the user to delete
DeleteUserQuery(c) ==
  /\ pc[c] = "delete_query"
  /\ LET user_model == query_user(Strip(args[c].username)) IN
     IF user_model = None
     THEN Done(c, "UserNotFoundException") /\ UNCHANGED loc
     ELSE Goto(c, "delete_count") /\ loc' = [loc EXCEPT ![c].role = user_model[1].role]
  /\ UNCHANGED <<dbvars, args, pre, last, ncalls, initial, current_user, test_price_map>>

\* DeleteUserCount protecting the last admin only once no admin is left
DeleteUserCount_OffByOne(c) ==
  /\ pc[c] = "delete_count"
  /\ IF loc[c].role = "admin" /\ admin_count < 1
     THEN Done(c, "AdminProtectionException")
     ELSE Goto(c, "delete_commit")
  /\ UNCHANGED <<dbvars, args, loc, pre, last, ncalls, initial, current_user, test_price_map>>

\* DeleteUserCount refusing the delete of any user while one admin is left
DeleteUserCount_AnyRole(c) ==
  /\ pc[c] = "delete_count"
  /\ IF admin_count <= 1
     THEN Done(c, "AdminProtectionException")
     ELSE Goto(c, "delete_commit")
  /\ UNCHANGED <<dbvars, args, loc, pre, last, ncalls, initial, current_user, test_price_map>>

\* db.delete_user: the count of the admins and the check that protects the last one
DeleteUserCount(c) ==
  /\ pc[c] = "delete_count"
  /\ IF loc[c].role = "admin" /\ admin_count <= 1
     THEN Done(c, "AdminProtectionException")
     ELSE Goto(c, "delete_commit")
  /\ UNCHANGED <<dbvars, args, loc, pre, last, ncalls, initial, current_user, test_price_map>>

\* db.delete_user: session.delete(user_model) and commit; the delete of a row
\* that is gone by now raises, which user_service reports as DataAccessException
DeleteUserCommit(c) ==
  /\ pc[c] = "delete_commit"
  /\ LET username == Strip(args[c].username) IN
     IF username \notin DOMAIN users
     THEN Done(c, "DataAccessException") /\ UNCHANGED <<users, portfolios, investments, ledger>>
     ELSE /\ Done(c, "ok")
          /\ users' = UsersAfterDelete(username)
          /\ portfolios' = PortfoliosAfterDelete(username)
          /\ investments' = InvestmentsAfterDelete(username)
          /\ ledger' = LedgerAfterDelete(username)
  /\ UNCHANGED <<securities, args, loc, pre, last, ncalls, initial, current_user, test_price_map>>

\* change_role: user = db.query_user(username.strip())
ChangeRoleQuery(c) ==
  /\ pc[c] = "role_query"
  /\ IF query_user(Strip(args[c].username)) = None
     THEN Done(c, "UserNotFoundException")
     ELSE Goto(c, "role_update")
  /\ UNCHANGED <<dbvars, args, loc, pre, last, ncalls, initial, current_user, test_price_map>>

\* ChangeRoleUpdate giving the new role to every user
ChangeRoleUpdate_Everyone(c) ==
  /\ pc[c] = "role_update"
  /\ LET username == Strip(args[c].username) IN
     IF username \notin DOMAIN users
     THEN Done(c, "False") /\ UNCHANGED users
     ELSE Done(c, "ok") /\ users' = [u \in DOMAIN users |-> [users[u] EXCEPT !.role = args[c].role]]
  /\ UNCHANGED <<portfolios, investments, securities, ledger, args, loc, pre, last, ncalls, initial, current_user, test_price_map>>

\* change_role: return db.update_user_role(username.strip(), new_role)
ChangeRoleUpdate(c) ==
  /\ pc[c] = "role_update"
  /\ LET username == Strip(args[c].username) IN
     IF username \notin DOMAIN users
     THEN Done(c, "False") /\ UNCHANGED users
     ELSE Done(c, "ok") /\ users' = [users EXCEPT ![username].role = args[c].role]
  /\ UNCHANGED <<portfolios, investments, securities, ledger, args, loc, pre, last, ncalls, initial, current_user, test_price_map>>

\* ------------------------------------------------------------- authenticate
\* a caller enters authenticate with arguments a: both must be non-empty
AuthStart(c, a) ==
  /\ pc[c] = "idle"
  /\ ncalls < MaxAdminCalls
  /\ ncalls' = ncalls + 1
  /\ args' = [args EXCEPT ![c] = a]
  /\ pre' = [pre EXCEPT ![c] = Snapshot]
  /\ IF a.username = "" \/ a.password = ""
     THEN Done(c, "ValidationException")
     ELSE Goto(c, "auth_query")
  /\ UNCHANGED <<dbvars, loc, last, initial, current_user, test_price_map>>

\* authenticate: the query for the user by the stripped username and the check
\* of the password against the stored credential; returns the user
AuthQuery(c) ==
  /\ pc[c] = "auth_query"
  /\ LET user_model == query_user(Strip(args[c].username)) IN
     IF user_model = None
     THEN Done(c, "InvalidCredentialsException") /\ UNCHANGED loc
     ELSE IF ~ check_password(args[c].password, user_model[1].password)
     THEN Done(c, "InvalidCredentialsException") /\ UNCHANGED loc
     ELSE Done(c, "ok") /\ loc' = [loc EXCEPT ![c].user = user_model]
  /\ UNCHANGED <<dbvars, args, pre, last, ncalls, initial, current_user, test_price_map>>

\* _do_login: db.set_current_user(user) with the user authenticate returned
SetCurrentUser(c) ==
  /\ pc[c] = "done"
  /\ args[c].op = "authenticate"
  /\ result[c] = "ok"
  /\ current_user # Some(Strip(args[c].username))
  /\ current_user' = Some(Strip(args[c].username))
  /\ UNCHANGED <<dbvars, pc, args, loc, result, pre, last, ncalls, initial, test_price_map>>

\* _logout: db.set_current_user(None)
Logout ==
  /\ current_user # None
  /\ current_user' = None
  /\ UNCHANGED <<dbvars, pc, args, loc, result, pre, last, ncalls, initial, test_price_map>>

\* ---------------------------------------------------- liquidate_investments
\* a caller enters liquidate_investments(username); db.query_user raises on an
\* empty username, which liquidate_investments turns into an error report
LiquidateStart(c, username) ==
  /\ pc[c] = "idle"
  /\ ncalls < MaxCalls
  /\ ncalls' = ncalls + 1
  /\ args' = [args EXCEPT ![c] = [op |-> "liquidate", username |-> username]]
  /\ pre' = [pre EXCEPT ![c] = Snapshot]
  /\ loc' = [loc EXCEPT ![c].liquidating = TRUE]
  /\ IF username = "" THEN Done(c, "error") ELSE Goto(c, "liq_query_user")
  /\ UNCHANGED <<dbvars, last, initial, current_user, test_price_map>>

\* user = db.query_user(username), which strips the username
LiquidateQueryUser(c) ==
  /\ pc[c] = "liq_query_user"
  /\ IF query_user(Strip(args[c].username)) = None
     THEN Done(c, "user_not_found")
     ELSE Goto(c, "liq_query_portfolios")
  /\ UNCHANGED <<dbvars, args, loc, pre, last, ncalls, initial, current_user, test_price_map>>

\* the positive holdings, as <<portfolio id, ticker, quantity>>, of the
\* portfolios whose owner_username equals username as it was passed
PositionsOf(username) ==
  {<<k[1], k[2], investments[k]>> :
     k \in {j \in DOMAIN investments :
              portfolios[j[1]].owner = username /\ investments[j] > 0}}

\* portfolios = [p for p in db.query_all_portfolios() if p.owner_username == username]
LiquidateQueryPortfolios(c) ==
  /\ pc[c] = "liq_query_portfolios"
  /\ IF \A p \in DOMAIN portfolios : portfolios[p].owner # args[c].username
     THEN Done(c, "no_holdings") /\ UNCHANGED loc
     ELSE /\ Goto(c, "liq_next")
          /\ loc' = [loc EXCEPT ![c].todo = PositionsOf(args[c].username)]
  /\ UNCHANGED <<dbvars, args, pre, last, ncalls, initial, current_user, test_price_map>>

\* the loop over the portfolios (in the order of their ids) and over the
\* holdings of each (a dict, in any order): return the report when nothing is
\* left, else enter sell_from_portfolio(username, symbol, qty, portfolio.id)
LiquidateNext(c) ==
  /\ pc[c] = "liq_next"
  /\ IF loc[c].todo = {}
     THEN Done(c, "report") /\ UNCHANGED <<args, loc>>
     ELSE \E pos \in {q \in loc[c].todo : \A r \in loc[c].todo : q[1] <= r[1]} :
            LET a == [op |-> "SELL", username |-> args[c].username, symbol |-> pos[2],
                      qty |-> pos[3], portfolio_id |-> pos[1], sale_price |-> None]
            IN
            /\ args' = [args EXCEPT ![c] = a]
            /\ loc' = [loc EXCEPT ![c].todo = @ \ {pos}]
            /\ IF ValidateTrade(a) # "ok"
               THEN Done(c, ValidateTrade(a))
               ELSE Goto(c, "query_user")
  /\ UNCHANGED <<dbvars, pre, last, ncalls, initial, current_user, test_price_map>>

\* LiquidateCollect giving up the remaining holdings after a sell that raised
LiquidateCollect_StopOnFailure(c) ==
  /\ pc[c] = "done"
  /\ loc[c].liquidating /\ args[c].op = "SELL"
  /\ LET symbol == args[c].symbol
         entry == IF result[c] = "ok"
                  THEN [ok |-> TRUE, sold |-> args[c].qty, reason |-> ""]
                  ELSE [ok |-> FALSE, sold |-> 0, reason |-> result[c]]
     IN loc' = [loc EXCEPT ![c] = [NoLoc EXCEPT !.liquidating = TRUE,
                                                !.todo = IF result[c] = "ok" THEN loc[c].todo ELSE {},
                                                !.report = Put(loc[c].report, symbol, entry)]]
  /\ args' = [args EXCEPT ![c] = [op |-> "liquidate", username |-> args[c].username]]
  /\ pc' = [pc EXCEPT ![c] = "liq_next"]
  /\ result' = [result EXCEPT ![c] = "none"]
  /\ UNCHANGED <<dbvars, pre, last, ncalls, initial, current_user, test_price_map>>

\* result[symbol] = {"ok": ok, "sold": qty}, or {"ok": False, "reason": str(e)}
\* when sell_from_portfolio raised; then on to the next holding
LiquidateCollect(c) ==
  /\ pc[c] = "done"
  /\ loc[c].liquidating /\ args[c].op = "SELL"
  /\ LET symbol == args[c].symbol
         entry == IF result[c] = "ok"
                  THEN [ok |-> TRUE, sold |-> args[c].qty, reason |-> ""]
                  ELSE [ok |-> FALSE, sold |-> 0, reason |-> result[c]]
     IN loc' = [loc EXCEPT ![c] = [NoLoc EXCEPT !.liquidating = TRUE,
                                                !.todo = loc[c].todo,
                                                !.report = Put(loc[c].report, symbol, entry)]]
  /\ args' = [args EXCEPT ![c] = [op |-> "liquidate", username |-> args[c].username]]
  /\ pc' = [pc EXCEPT ![c] = "liq_next"]
  /\ result' = [result EXCEPT ![c] = "none"]
  /\ UNCHANGED <<dbvars, pre, last, ncalls, initial, current_user, test_price_map>>

\* ------------------------- create_portfolio / update_portfolio / delete_portfolio
\* a row of the portfolios table
PortfolioModel(name, username) == [owner |-> username, name |-> name]

\* the id the autoincrement key gives the next row
NextPortfolioId ==
  IF DOMAIN portfolios = {} THEN 1
  ELSE 1 + CHOOSE m \in DOMAIN portfolios : \A p \in DOMAIN portfolios : p <= m

\* "if actor_username:" is false for None and for the empty string
Truthy(actor_username) == actor_username # None /\ actor_username[1] # ""

\* the portfolios table after db.update_portfolio(pid, name=name) committed
update_portfolio(pid, name) == [portfolios EXCEPT ![pid].name = name]

\* db.delete_portfolio(pid): the investments and the transactions of the
\* portfolio go with it (cascade)
PortfoliosAfterDeletePortfolio(pid) == Remove(portfolios, pid)

InvestmentsAfterDeletePortfolio(pid) ==
  [k \in {j \in DOMAIN investments : j[1] # pid} |-> investments[k]]

LedgerAfterDeletePortfolio(pid) ==
  LET Keep(t) == t.portfolio # pid IN SelectSeq(ledger, Keep)

\* the input validation of create_portfolio
ValidatePortfolio(a) ==
  IF a.op # "create_portfolio" THEN "ok"
  ELSE IF Strip(a.name) = "" THEN "ValidationException"
  ELSE IF Strip(a.username) = "" THEN "ValidationException"
  ELSE "ok"

\* a call of create_portfolio, update_portfolio or delete_portfolio
PortfolioStart(c, a) ==
  /\ pc[c] = "idle"
  /\ ncalls < MaxAdminCalls
  /\ ncalls' = ncalls + 1
  /\ args' = [args EXCEPT ![c] = a]
  /\ pre' = [pre EXCEPT ![c] = Snapshot]
  /\ IF ValidatePortfolio(a) # "ok"
     THEN Done(c, ValidatePortfolio(a))
     ELSE Goto(c, IF a.op = "create_portfolio" THEN "pf_create_query" ELSE "pf_query")
  /\ UNCHANGED <<dbvars, loc, last, initial, current_user, test_price_map>>

\* create_portfolio: user = db.query_user(username.strip())
CreatePortfolioQuery(c) ==
  /\ pc[c] = "pf_create_query"
  /\ IF query_user(Strip(args[c].username)) = None
     THEN Done(c, "UserNotFoundException")
     ELSE Goto(c, "pf_create")
  /\ UNCHANGED <<dbvars, args, loc, pre, last, ncalls, initial, current_user, test_price_map>>

\* db.create_portfolio: looks the owner up again and adds the row
CreatePortfolioInsert(c) ==
  /\ pc[c] = "pf_create"
  /\ LET username == Strip(args[c].username) IN
     IF username \notin DOMAIN users
     THEN Done(c, "DataAccessException") /\ UNCHANGED portfolios
     ELSE /\ Done(c, "ok")
          /\ portfolios' = Put(portfolios, NextPortfolioId,
                               PortfolioModel(Strip(args[c].name), username))
  /\ UNCHANGED <<users, investments, securities, ledger, args, loc, pre, last, ncalls, initial, current_user, test_price_map>>

\* update_portfolio / delete_portfolio: p = db.query_portfolio(pid), and the
\* test of actor_username that decides whether the actor is looked up
PortfolioQuery(c) ==
  /\ pc[c] = "pf_query"
  /\ LET p == query_portfolio(args[c].pid) IN
     IF p = None
     THEN Done(c, "False") /\ UNCHANGED loc
     ELSE /\ loc' = [loc EXCEPT ![c].owner = p[1].owner]
          /\ Goto(c, IF Truthy(args[c].actor_username) THEN "pf_actor" ELSE "pf_write")
  /\ UNCHANGED <<dbvars, args, pre, last, ncalls, initial, current_user, test_price_map>>

\* update_portfolio / delete_portfolio: actor = db.query_user(actor_username)
\* and the test that the actor owns the portfolio or is an admin
PortfolioActor(c) ==
  /\ pc[c] = "pf_actor"
  /\ LET username == Strip(args[c].actor_username[1])
         actor == query_user(username)
     IN
     IF actor = None THEN Done(c, "False")
     ELSE IF username # loc[c].owner /\ actor[1].role # "admin" THEN Done(c, "False")
     ELSE Goto(c, "pf_write")
  /\ UNCHANGED <<dbvars, args, loc, pre, last, ncalls, initial, current_user, test_price_map>>

\* update_portfolio: return db.update_portfolio(pid, **kwargs)
UpdatePortfolioWrite(c) ==
  /\ pc[c] = "pf_write"
  /\ args[c].op = "update_portfolio"
  /\ IF args[c].pid \notin DOMAIN portfolios
     THEN Done(c, "False") /\ UNCHANGED portfolios
     ELSE Done(c, "True") /\ portfolios' = update_portfolio(args[c].pid, args[c].name)
  /\ UNCHANGED <<users, investments, securities, ledger, args, loc, pre, last, ncalls, initial, current_user, test_price_map>>

\* delete_portfolio: return db.delete_portfolio(pid)
DeletePortfolioWrite(c) ==
  /\ pc[c] = "pf_write"
  /\ args[c].op = "delete_portfolio"
  /\ IF args[c].pid \notin DOMAIN portfolios
     THEN Done(c, "False") /\ UNCHANGED <<portfolios, investments, ledger>>
     ELSE /\ Done(c, "True")
          /\ portfolios' = PortfoliosAfterDeletePortfolio(args[c].pid)
          /\ investments' = InvestmentsAfterDeletePortfolio(args[c].pid)
          /\ ledger' = LedgerAfterDeletePortfolio(args[c].pid)
  /\ UNCHANGED <<users, securities, args, loc, pre, last, ncalls, initial, current_user, test_price_map>>

\* ------------------------------------------- set_test_price_map / clear_test_price_map
\* set_test_price_map(price_map): _TEST_PRICE_MAP = price_map
SetTestPriceMap(m) ==
  /\ test_price_map # Some(m)
  /\ test_price_map' = Some(m)
  /\ UNCHANGED <<dbvars, pc, args, loc, result, pre, last, ncalls, initial, current_user>>

\* clear_test_price_map(): _TEST_PRICE_MAP = None
ClearTestPriceMap ==
  /\ test_price_map # None
  /\ test_price_map' = None
  /\ UNCHANGED <<dbvars, pc, args, loc, result, pre, last, ncalls, initial, current_user>>

\* ------------------------------------------------------------ HTTP routes
\* the investments table after remove_investment(portfolio_id, ticker) committed
remove_investment(portfolio_id, ticker) ==
  IF ticker \in securities /\ <<portfolio_id, ticker>> \in DOMAIN investments
  THEN Remove(investments, <<portfolio_id, ticker>>)
  ELSE investments

\* a request to POST /portfolios/<id>/securities or to
\* DELETE /portfolios/<id>/securities/<ticker>: the ticker is upper-cased; the
\* POST is answered 400 for an empty ticker or a quantity that is not positive
RouteStart(c, a) ==
  /\ pc[c] = "idle"
  /\ ncalls < MaxCalls
  /\ ncalls' = ncalls + 1
  /\ args' = [args EXCEPT ![c] = a]
  /\ pre' = [pre EXCEPT ![c] = Snapshot]
  /\ loc' = [loc EXCEPT ![c].symbol = Upper(a.ticker)]
  /\ IF a.op = "DELETE" THEN Goto(c, "route_remove")
     ELSE IF Upper(a.ticker) = "" \/ a.quantity <= 0 THEN Done(c, "400")
     ELSE Goto(c, "route_get")
  /\ UNCHANGED <<dbvars, last, initial, current_user, test_price_map>>

\* add_security_to_portfolio: current = get_investment(portfolio_id, ticker)
RouteGetInvestment(c) ==
  /\ pc[c] = "route_get"
  /\ LET current == get_investment(args[c].portfolio_id, loc[c].symbol) IN
     loc' = [loc EXCEPT ![c].current_holdings = IF current = None THEN 0 ELSE current[1]]
  /\ Goto(c, "route_update")
  /\ UNCHANGED <<dbvars, args, pre, last, ncalls, initial, current_user, test_price_map>>

\* add_security_to_portfolio: success = update_investment(portfolio_id, ticker,
\* new_quantity), which is False for a ticker that is not registered and for a
\* portfolio that does not exist
RouteUpdateInvestment(c) ==
  /\ pc[c] = "route_update"
  /\ LET new_quantity == loc[c].current_holdings + args[c].quantity IN
     /\ investments' = update_investment(args[c].portfolio_id, loc[c].symbol, new_quantity)
     /\ IF loc[c].symbol \in securities
           /\ (args[c].portfolio_id \in DOMAIN portfolios
               \/ <<args[c].portfolio_id, loc[c].symbol>> \in DOMAIN investments)
        THEN Done(c, "201")
        ELSE Done(c, "500")
  /\ UNCHANGED <<users, portfolios, securities, ledger, args, loc, pre, last, ncalls, initial, current_user, test_price_map>>

\* harvest_investment: success = remove_investment(portfolio_id, ticker)
RouteRemoveInvestment(c) ==
  /\ pc[c] = "route_remove"
  /\ investments' = remove_investment(args[c].portfolio_id, loc[c].symbol)
  /\ IF loc[c].symbol \in securities /\ <<args[c].portfolio_id, loc[c].symbol>> \in DOMAIN investments
     THEN Done(c, "200")
     ELSE Done(c, "404")
  /\ UNCHANGED <<users, portfolios, securities, ledger, args, loc, pre, last, ncalls, initial, current_user, test_price_map>>

\* the call returns to its caller (or raises); a successful buy or add_user is remembered
\* together with the state it started from
Return(c) ==
  /\ pc[c] = "done"
  /\ ~ (loc[c].liquidating /\ args[c].op = "SELL")
  /\ pc' = [pc EXCEPT ![c] = "idle"]
  /\ last' = IF args[c].op \in {"BUY", "add_user"} /\ result[c] = "ok"
             THEN Some([args |-> args[c], symbol |-> loc[c].symbol, pre |-> pre[c]])
             ELSE None
  /\ args' = [args EXCEPT ![c] = NoArgs]
  /\ loc' = [loc EXCEPT ![c] = NoLoc]
  /\ result' = [result EXCEPT ![c] = "none"]
  /\ pre' = [pre EXCEPT ![c] = NoPre]
  /\ UNCHANGED <<dbvars, ncalls, initial, current_user, test_price_map>>

\* -------------------------------------------------------------- the inputs
BuyArgs(U, S, Q, P) ==
  {[op |-> "BUY", username |-> u, symbol |-> s, qty |-> q, portfolio_id |-> p,
    sale_price |-> None] : u \in U, s \in S, q \in Q, p \in P}

SellArgs(U, S, Q, P, SP) ==
  {[op |-> "SELL", username |-> u, symbol |-> s, qty |-> q, portfolio_id |-> p,
    sale_price |-> sp] : u \in U, s \in S, q \in Q, p \in P, sp \in SP}

\* arguments of the calls made one at a time
SeqTradeArgs ==
  BuyArgs({" alice ", "bob", "ghost", "  "}, {"aapl", "UBER", "zzzz"}, {0, 2, 5}, {1, 3})
  \cup SellArgs({" alice ", "bob", "ghost", "  "}, {"aapl", "UBER", "zzzz"}, {0, 2, 5}, {1, 3},
                {None, Some(0), Some(175), Some(-1)})

\* arguments of the calls that run concurrently: trades of alice in her
\* portfolio
ConcTradeArgs ==
  BuyArgs({"alice"}, {"AAPL"}, {1, 2}, {1})
  \cup SellArgs({"alice"}, {"AAPL"}, {1, 2}, {1}, {None, Some(0)})

\* arguments of the calls made while Directory writes may fail
FaultTradeArgs ==
  BuyArgs({" alice ", "ghost"}, {"aapl", "UBER"}, {2, 5}, {1})
  \cup SellArgs({" alice ", "ghost"}, {"aapl", "UBER"}, {2, 5}, {1}, {None, Some(0)})

AddUserArgs(U, PW, R) ==
  {[op |-> "add_user", username |-> u, password |-> pw, role |-> r] : u \in U, pw \in PW, r \in R}

DeleteUserArgs(U) == {[op |-> "delete_user", username |-> u] : u \in U}

ChangeRoleArgs(U, R) ==
  {[op |-> "change_role", username |-> u, role |-> r] : u \in U, r \in R}

\* arguments of the add_user and delete_user calls
UserArgs ==
  AddUserArgs({"carol", " alice ", "  "}, {"pw", "  "}, {"user", "admin", "root"})
  \cup DeleteUserArgs({"admin", " alice ", "bob", "carol", "  "})

\* arguments of the change_role calls
RoleArgs == ChangeRoleArgs({"admin", " alice ", "carol", "  "}, {"user", "admin", "root"})

\* arguments of the buy and sell calls made in between user administration
CallTradeArgs ==
  BuyArgs({" alice ", "  "}, {"aapl", "UBER"}, {0, 2}, {1})
  \cup SellArgs({" alice ", "  "}, {"aapl", "UBER"}, {0, 2}, {1}, {None, Some(-1)})

AuthenticateArgs(U, PW) ==
  {[op |-> "authenticate", username |-> u, password |-> pw] : u \in U, pw \in PW}

\* arguments of the authenticate calls
AuthArgs == AuthenticateArgs({"", "  ", " alice ", "bob", "carol"}, {"", "pw", " pw ", "$2x", "bad"})

\* arguments of the add_user calls made in between logins
AuthUserArgs == AddUserArgs({"carol"}, {"pw", " pw ", "$2x"}, {"user"})

\* arguments of the add_user calls that run concurrently
ConcUserArgs == AddUserArgs({"carol", " carol ", " alice "}, {"pw"}, {"user", "admin"})

\* usernames liquidate_investments is called with
LiquidateArgs == {"alice", " alice ", "bob", "admin", "ghost", ""}

\* arguments of the buys made before or after a liquidation
LiquidateTradeArgs == BuyArgs({"alice"}, {"AAPL", "UBER"}, {1}, {1, 3})

\* arguments of create_portfolio, update_portfolio and delete_portfolio
CreatePortfolioArgs(N, U) ==
  {[op |-> "create_portfolio", name |-> n, username |-> u] : n \in N, u \in U}

UpdatePortfolioArgs(P, A, N) ==
  {[op |-> "update_portfolio", pid |-> p, actor_username |-> a, name |-> n] :
     p \in P, a \in A, n \in N}

DeletePortfolioArgs(P, A) ==
  {[op |-> "delete_portfolio", pid |-> p, actor_username |-> a] : p \in P, a \in A}

Actors == {None, Some(""), Some("alice"), Some("bob"), Some("admin"), Some("ghost")}

PortfolioArgs ==
  CreatePortfolioArgs({"growth", "  "}, {"bob", "ghost", "  "})
  \cup UpdatePortfolioArgs({1, 2, 9}, Actors, {"renamed"})
  \cup DeletePortfolioArgs({1, 2, 9}, Actors)


\* the tables handed to set_test_price_map: an empty one, one that prices a
\* default ticker differently and drops the others, one that adds a ticker
PriceMaps ==
  {[t \in {} |-> 0],
   [t \in {"UBER"} |-> 50],
   [t \in {"AAPL", "ZZZZ"} |-> IF t = "AAPL" THEN 100 ELSE 10]}

PriceTradeArgs ==
  BuyArgs({"alice"}, {"aapl", "UBER", "zzzz"}, {2}, {1})
  \cup SellArgs({"alice"}, {"aapl", "UBER", "zzzz"}, {2}, {1}, {None, Some(120)})

\* the requests to the two routes that change holdings
PostSecurityArgs(P, T, Q) ==
  {[op |-> "POST", portfolio_id |-> p, ticker |-> t, quantity |-> q] : p \in P, t \in T, q \in Q}

DeleteSecurityArgs(P, T) ==
  {[op |-> "DELETE", portfolio_id |-> p, ticker |-> t] : p \in P, t \in T}

RouteArgs ==
  PostSecurityArgs({1, 9}, {"aapl", "UBER", ""}, {0, 3})
  \cup DeleteSecurityArgs({1, 9}, {"aapl", "UBER"})

RouteTradeArgs ==
  BuyArgs({"alice"}, {"AAPL", "UBER"}, {2}, {1})
  \cup SellArgs({"alice"}, {"AAPL", "UBER"}, {2}, {1}, {None})

Idle(c) == pc[c] = "idle"

AllIdle == \A c \in Callers : Idle(c)

\* ------------------------------------------------------------ initial states
InitCallers ==
  /\ pc = [c \in Callers |-> "idle"]
  /\ args = [c \in Callers |-> NoArgs]
  /\ loc = [c \in Callers |-> NoLoc]
  /\ result = [c \in Callers |-> "none"]
  /\ pre = [c \in Callers |-> NoPre]
  /\ last = None
  /\ ncalls = 0
  /\ initial = Snapshot
  /\ current_user = None
  /\ test_price_map = None

InitTrade ==
  /\ \E b \in {200, 1000} :
       users = [u \in {"admin", "alice", "bob"} |->
                  CASE u = "admin" -> UserModel(hash_password("admin"), 10000, "admin")
                    [] u = "alice" -> UserModel(hash_password("pw"), b, "user")
                    [] u = "bob" -> UserModel(hash_password("pw"), 500, "user")]
  /\ portfolios = [p \in {1, 2} |-> [owner |-> IF p = 1 THEN "alice" ELSE "bob", name |-> "main"]]
  /\ \E h \in {0, 2} :
       /\ investments = IF h = 0 THEN << >> ELSE [k \in {<<1, "AAPL">>} |-> h]
       /\ securities \in IF h = 0 THEN {{}, {"AAPL"}} ELSE {{"AAPL"}}
  /\ ledger = << >>
  /\ InitCallers

\* a Directory with one or two admins; alice owns a portfolio that holds and has
\* traded AAPL
InitAdmin ==
  /\ \E r \in {"user", "admin"} :
       users = [u \in {"admin", "alice", "bob"} |->
                  CASE u = "admin" -> UserModel(hash_password("admin"), 10000, "admin")
                    [] u = "alice" -> UserModel(hash_password("pw"), 650, r)
                    [] u = "bob" -> UserModel(hash_password("pw"), 500, "user")]
  /\ portfolios = [p \in {1, 2} |-> [owner |-> IF p = 1 THEN "alice" ELSE "bob", name |-> "main"]]
  /\ investments = [k \in {<<1, "AAPL">>} |-> 2]
  /\ securities = {"AAPL"}
  /\ ledger = <<TransactionModel("alice", 1, "AAPL", "BUY", 2, 175)>>
  /\ InitCallers

\* a Directory in which the credential of bob is still plain text
InitAuth ==
  /\ users = [u \in {"admin", "alice", "bob"} |->
                CASE u = "admin" -> UserModel(hash_password("admin"), 10000, "admin")
                  [] u = "alice" -> UserModel(hash_password("pw"), 650, "user")
                  [] u = "bob" -> UserModel(<<"pw">>, 500, "user")]
  /\ portfolios = [p \in {1, 2} |-> [owner |-> IF p = 1 THEN "alice" ELSE "bob", name |-> "main"]]
  /\ investments = [k \in {<<1, "AAPL">>} |-> 2]
  /\ securities = {"AAPL"}
  /\ ledger = <<TransactionModel("alice", 1, "AAPL", "BUY", 2, 175)>>
  /\ InitCallers

\* the holdings the liquidations start from: alice owns portfolios 1 and 3
LiquidateHoldings ==
  {(<<1, "AAPL">> :> 5) @@ (<<3, "GOOGL">> :> 3) @@ (<<2, "MSFT">> :> 1),
   (<<1, "AAPL">> :> 5) @@ (<<3, "AAPL">> :> 3) @@ (<<2, "MSFT">> :> 1),
   (<<1, "AAPL">> :> 5) @@ (<<1, "GOOGL">> :> 3) @@ (<<2, "AAPL">> :> 1),
   (<<1, "ZZZZ">> :> 4) @@ (<<1, "AAPL">> :> 5) @@ (<<3, "GOOGL">> :> 3)}

InitLiquidate ==
  /\ users = [u \in {"admin", "alice", "bob"} |->
                CASE u = "admin" -> UserModel(hash_password("admin"), 10000, "admin")
                  [] u = "alice" -> UserModel(hash_password("pw"), 1000, "user")
                  [] u = "bob" -> UserModel(hash_password("pw"), 500, "user")]
  /\ portfolios = [p \in {1, 2, 3} |-> [owner |-> IF p = 2 THEN "bob" ELSE "alice", name |-> "main"]]
  /\ investments \in LiquidateHoldings
  /\ securities = {k[2] : k \in DOMAIN investments}
  /\ ledger = << >>
  /\ InitCallers

\* ----------------------------------------------------------- specifications
\* concurrent buy and sell calls, the Directory never failing
Next ==
  \E c \in Callers :
    \/ \E a \in ConcTradeArgs : TradeStart(c, a)
    \/ QueryUser(c)
    \/ QueryPortfolio(c)
    \/ SecurityQuery(c)
    \/ SecurityInsert(c, FALSE)
    \/ GetInvestment(c)
    \/ UpdateUserBalance(c, FALSE)
    \/ UpdateInvestment(c, FALSE)
    \/ RecordTransaction(c, FALSE)
    \/ Return(c)

Spec == InitTrade /\ [][Next]_vars

\* the caller of the calls made one at a time
SeqCaller == 1

\* buy and sell calls made one after the other, the Directory never failing
NextSeq ==
  \E c \in {SeqCaller} :
    \/ AllIdle /\ \E a \in SeqTradeArgs : TradeStart(c, a)
    \/ QueryUser(c)
    \/ QueryPortfolio(c)
    \/ SecurityQuery(c)
    \/ SecurityInsert(c, FALSE)
    \/ GetInvestment(c)
    \/ UpdateUserBalance(c, FALSE)
    \/ UpdateInvestment(c, FALSE)
    \/ RecordTransaction(c, FALSE)
    \/ Return(c)

SpecSeq == InitTrade /\ [][NextSeq]_vars

\* buy and sell calls made one after the other, any Directory write may fail
NextFault ==
  \E c \in {SeqCaller} :
    \/ AllIdle /\ \E a \in FaultTradeArgs : TradeStart(c, a)
    \/ QueryUser(c)
    \/ QueryPortfolio(c)
    \/ SecurityQuery(c)
    \/ \E fail \in BOOLEAN : SecurityInsert(c, fail)
    \/ GetInvestment(c)
    \/ \E fail \in BOOLEAN : UpdateUserBalance(c, fail)
    \/ \E fail \in BOOLEAN : UpdateInvestment(c, fail)
    \/ \E fail \in BOOLEAN : RecordTransaction(c, fail)
    \/ Return(c)

SpecFault == InitTrade /\ [][NextFault]_vars

\* add_user and delete_user calls made one after the other
NextUsers ==
  \E c \in {SeqCaller} :
    \/ AllIdle /\ \E a \in UserArgs : AdminStart(c, a)
    \/ AddUserQuery(c)
    \/ AddUserCreate(c)
    \/ DeleteUserQuery(c)
    \/ DeleteUserCount(c)
    \/ DeleteUserCommit(c)
    \/ Return(c)

SpecUsers == InitAdmin /\ [][NextUsers]_vars

\* add_user, delete_user and change_role calls made one after the other
NextRoles ==
  \E c \in {SeqCaller} :
    \/ AllIdle /\ \E a \in UserArgs \cup RoleArgs : AdminStart(c, a)
    \/ AddUserQuery(c)
    \/ AddUserCreate(c)
    \/ DeleteUserQuery(c)
    \/ DeleteUserCount(c)
    \/ DeleteUserCommit(c)
    \/ ChangeRoleQuery(c)
    \/ ChangeRoleUpdate(c)
    \/ Return(c)

SpecRoles == InitAdmin /\ [][NextRoles]_vars

\* buy, sell, add_user, delete_user and change_role calls made one after the other
NextCalls ==
  \E c \in {SeqCaller} :
    \/ AllIdle /\ \E a \in CallTradeArgs : TradeStart(c, a)
    \/ AllIdle /\ \E a \in UserArgs \cup RoleArgs : AdminStart(c, a)
    \/ QueryUser(c)
    \/ QueryPortfolio(c)
    \/ SecurityQuery(c)
    \/ SecurityInsert(c, FALSE)
    \/ GetInvestment(c)
    \/ UpdateUserBalance(c, FALSE)
    \/ UpdateInvestment(c, FALSE)
    \/ RecordTransaction(c, FALSE)
    \/ AddUserQuery(c)
    \/ AddUserCreate(c)
    \/ DeleteUserQuery(c)
    \/ DeleteUserCount(c)
    \/ DeleteUserCommit(c)
    \/ ChangeRoleQuery(c)
    \/ ChangeRoleUpdate(c)
    \/ Return(c)

SpecCalls == InitAdmin /\ [][NextCalls]_vars

\* logins (authenticate, then set_current_user), logouts and add_user calls
NextAuth ==
  \/ \E c \in {SeqCaller} :
       \/ AllIdle /\ \E a \in AuthArgs : AuthStart(c, a)
       \/ AllIdle /\ \E a \in AuthUserArgs : AdminStart(c, a)
       \/ AuthQuery(c)
       \/ SetCurrentUser(c)
       \/ AddUserQuery(c)
       \/ AddUserCreate(c)
       \/ Return(c)
  \/ Logout

SpecAuth == InitAuth /\ [][NextAuth]_vars

\* concurrent add_user calls
NextAdd ==
  \E c \in Callers :
    \/ \E a \in ConcUserArgs : AdminStart(c, a)
    \/ AddUserQuery(c)
    \/ AddUserCreate(c)
    \/ Return(c)

SpecAdd == InitAdmin /\ [][NextAdd]_vars

\* liquidate_investments and buy calls made one after the other
NextLiquidate ==
  \E c \in {SeqCaller} :
    \/ AllIdle /\ \E username \in LiquidateArgs : LiquidateStart(c, username)
    \/ AllIdle /\ \E a \in LiquidateTradeArgs : TradeStart(c, a)
    \/ LiquidateQueryUser(c)
    \/ LiquidateQueryPortfolios(c)
    \/ LiquidateNext(c)
    \/ LiquidateCollect(c)
    \/ QueryUser(c)
    \/ QueryPortfolio(c)
    \/ SecurityQuery(c)
    \/ SecurityInsert(c, FALSE)
    \/ GetInvestment(c)
    \/ UpdateUserBalance(c, FALSE)
    \/ UpdateInvestment(c, FALSE)
    \/ RecordTransaction(c, FALSE)
    \/ Return(c)

SpecLiquidate == InitLiquidate /\ [][NextLiquidate]_vars

\* concurrent delete_user calls
NextDelete ==
  \E c \in Callers :
    \/ \E a \in DeleteUserArgs({"admin", "alice", "bob", "carol"}) : AdminStart(c, a)
    \/ DeleteUserQuery(c)
    \/ DeleteUserCount(c)
    \/ DeleteUserCommit(c)
    \/ Return(c)

SpecDelete == InitAdmin /\ [][NextDelete]_vars

\* create_portfolio, update_portfolio and delete_portfolio calls made one after
\* the other
NextPortfolios ==
  \E c \in {SeqCaller} :
    \/ AllIdle /\ \E a \in PortfolioArgs : PortfolioStart(c, a)
    \/ CreatePortfolioQuery(c)
    \/ CreatePortfolioInsert(c)
    \/ PortfolioQuery(c)
    \/ PortfolioActor(c)
    \/ UpdatePortfolioWrite(c)
    \/ DeletePortfolioWrite(c)
    \/ Return(c)

SpecPortfolios == InitAdmin /\ [][NextPortfolios]_vars

\* every operation that writes to the Directory, the calls made one after the other
NextLedger ==
  \E c \in {SeqCaller} :
    \/ AllIdle /\ \E a \in CallTradeArgs : TradeStart(c, a)
    \/ AllIdle /\ \E a \in UserArgs \cup RoleArgs : AdminStart(c, a)
    \/ AllIdle /\ \E a \in PortfolioArgs : PortfolioStart(c, a)
    \/ AllIdle /\ \E username \in {"alice", "bob", "ghost"} : LiquidateStart(c, username)
    \/ QueryUser(c)
    \/ QueryPortfolio(c)
    \/ SecurityQuery(c)
    \/ SecurityInsert(c, FALSE)
    \/ GetInvestment(c)
    \/ UpdateUserBalance(c, FALSE)
    \/ UpdateInvestment(c, FALSE)
    \/ RecordTransaction(c, FALSE)
    \/ LiquidateQueryUser(c)
    \/ LiquidateQueryPortfolios(c)
    \/ LiquidateNext(c)
    \/ LiquidateCollect(c)
    \/ AddUserQuery(c)
    \/ AddUserCreate(c)
    \/ DeleteUserQuery(c)
    \/ DeleteUserCount(c)
    \/ DeleteUserCommit(c)
    \/ ChangeRoleQuery(c)
    \/ ChangeRoleUpdate(c)
    \/ CreatePortfolioQuery(c)
    \/ CreatePortfolioInsert(c)
    \/ PortfolioQuery(c)
    \/ PortfolioActor(c)
    \/ UpdatePortfolioWrite(c)
    \/ DeletePortfolioWrite(c)
    \/ Return(c)

SpecLedger == InitAdmin /\ [][NextLedger]_vars

\* buy and sell calls made one after the other, the price override set and
\* cleared between them
NextPrices ==
  \/ AllIdle /\ \E m \in PriceMaps : SetTestPriceMap(m)
  \/ AllIdle /\ ClearTestPriceMap
  \/ \E c \in {SeqCaller} :
       \/ AllIdle /\ \E a \in PriceTradeArgs : TradeStart(c, a)
       \/ QueryUser(c)
       \/ QueryPortfolio(c)
       \/ SecurityQuery(c)
       \/ SecurityInsert(c, FALSE)
       \/ GetInvestment(c)
       \/ UpdateUserBalance(c, FALSE)
       \/ UpdateInvestment(c, FALSE)
       \/ RecordTransaction(c, FALSE)
       \/ Return(c)

SpecPrices == InitTrade /\ [][NextPrices]_vars

\* a Directory with no holdings and no transactions
InitRoutes ==
  /\ users = [u \in {"admin", "alice", "bob"} |->
                CASE u = "admin" -> UserModel(hash_password("admin"), 10000, "admin")
                  [] u = "alice" -> UserModel(hash_password("pw"), 1000, "user")
                  [] u = "bob" -> UserModel(hash_password("pw"), 500, "user")]
  /\ portfolios = [p \in {1, 2} |-> PortfolioModel("main", IF p = 1 THEN "alice" ELSE "bob")]
  /\ investments = << >>
  /\ securities \in {{}, {"AAPL"}}
  /\ ledger = << >>
  /\ InitCallers

\* buy, sell and liquidate_investments calls and requests to the two routes,
\* made one after the other
NextRoutes ==
  \E c \in {SeqCaller} :
    \/ AllIdle /\ \E a \in RouteTradeArgs : TradeStart(c, a)
    \/ AllIdle /\ \E a \in RouteArgs : RouteStart(c, a)
    \/ AllIdle /\ LiquidateStart(c, "alice")
    \/ RouteGetInvestment(c)
    \/ RouteUpdateInvestment(c)
    \/ RouteRemoveInvestment(c)
    \/ LiquidateQueryUser(c)
    \/ LiquidateQueryPortfolios(c)
    \/ LiquidateNext(c)
    \/ LiquidateCollect(c)
    \/ QueryUser(c)
    \/ QueryPortfolio(c)
    \/ SecurityQuery(c)
    \/ SecurityInsert(c, FALSE)
    \/ GetInvestment(c)
    \/ UpdateUserBalance(c, FALSE)
    \/ UpdateInvestment(c, FALSE)
    \/ RecordTransaction(c, FALSE)
    \/ Return(c)

SpecRoutes == InitRoutes /\ [][NextRoutes]_vars

\* ==================================================================== claims
\* the arguments as the service normalises them
UserOf(a) == Strip(a.username)

SymbolOf(a) == Upper(Strip(a.symbol))

\* the quantity Directory state s holds for a portfolio and ticker, 0 if no entry
Held(s, portfolio_id, ticker) ==
  IF <<portfolio_id, ticker>> \in DOMAIN s.investments
  THEN s.investments[<<portfolio_id, ticker>>] ELSE 0

\* the price a sell with arguments a trades at
SalePriceOf(a) ==
  IF a.sale_price = None THEN DefaultPriceMap[SymbolOf(a)] ELSE a.sale_price[1]

IsTrade(c) == args[c].op \in {"BUY", "SELL"}

\* balance, holdings and ledger are as they were in Directory state s
Unapplied(s) ==
  /\ users = s.users
  /\ investments = s.investments
  /\ ledger = s.ledger

\* balance, holdings and ledger are those of Directory state s with the buy a applied
BuyApplied(a, s) ==
  LET u == UserOf(a)
      t == SymbolOf(a)
      k == <<a.portfolio_id, t>>
  IN
  /\ users = [s.users EXCEPT ![u].balance = @ - DefaultPriceMap[t] * a.qty]
  /\ k \in DOMAIN investments
  /\ investments[k] = Held(s, a.portfolio_id, t) + a.qty
  /\ \A j \in DOMAIN investments \ {k} : j \in DOMAIN s.investments /\ investments[j] = s.investments[j]
  /\ DOMAIN s.investments \subseteq DOMAIN investments
  /\ t \in securities
  /\ ledger = Append(s.ledger,
       [type |-> "BUY", user |-> u, portfolio |-> a.portfolio_id, security |-> t,
        quantity |-> a.qty, price |-> DefaultPriceMap[t]])

\* balance, holdings and ledger are those of Directory state s with the sell a applied
SellApplied(a, s) ==
  LET u == UserOf(a)
      t == SymbolOf(a)
      k == <<a.portfolio_id, t>>
  IN
  /\ users = [s.users EXCEPT ![u].balance = @ + SalePriceOf(a) * a.qty]
  /\ IF Held(s, a.portfolio_id, t) - a.qty = 0
     THEN k \notin DOMAIN investments
     ELSE k \in DOMAIN investments /\ investments[k] = Held(s, a.portfolio_id, t) - a.qty
  /\ \A j \in DOMAIN investments \ {k} : j \in DOMAIN s.investments /\ investments[j] = s.investments[j]
  /\ DOMAIN s.investments \ {k} \subseteq DOMAIN investments
  /\ ledger = Append(s.ledger,
       [type |-> "SELL", user |-> u, portfolio |-> a.portfolio_id, security |-> t,
        quantity |-> a.qty, price |-> SalePriceOf(a)])

\* C1: in every state reachable by buy and sell calls, interleaved at their
\* Directory reads and writes in any way, every stored holdings quantity is
\* strictly positive and every user's balance is >= 0.
C1_PositiveHoldingsAndBalances ==
  /\ \A k \in DOMAIN investments : investments[k] > 0
  /\ \A u \in DOMAIN users : users[u].balance >= 0

\* two interleaved buys of alice have both returned success although her 200
\* paid for one of them only
C1_Witness ==
  /\ Len(ledger) = 2
  /\ \A i \in 1..2 : ledger[i].type = "BUY" /\ ledger[i].quantity = 1 /\ ledger[i].user = "alice"
  /\ users["alice"].balance = 25
  /\ AllIdle

\* the failure the fixed order of the preconditions gives for a call with
\* arguments a in Directory state s ("ok" when none is violated)
FirstViolated(a, s) ==
  IF a.qty <= 0 \/ UserOf(a) = "" \/ (a.sale_price # None /\ a.sale_price[1] < 0)
  THEN "ValidationException"
  ELSE IF UserOf(a) \notin DOMAIN s.users THEN "UserNotFoundException"
  ELSE IF a.portfolio_id \notin DOMAIN s.portfolios THEN "PortfolioNotFoundException"
  ELSE IF s.portfolios[a.portfolio_id].owner # UserOf(a) THEN "AuthorizationException"
  ELSE IF SymbolOf(a) \notin DOMAIN DefaultPriceMap THEN "SecurityNotAvailableException"
  ELSE IF a.op = "BUY" /\ DefaultPriceMap[SymbolOf(a)] * a.qty > s.users[UserOf(a)].balance
  THEN "InsufficientFundsException"
  ELSE IF a.op = "SELL" /\ Held(s, a.portfolio_id, SymbolOf(a)) < a.qty
  THEN "InsufficientSharesException"
  ELSE "ok"

\* C5: a buy or sell that violates several preconditions fails with the first
\* violated one in the order invalid input, user absent, portfolio absent, not
\* the owner, ticker not priced, insufficient funds / shares.
C5_FirstViolatedPrecondition ==
  \A c \in Callers :
    pc[c] = "done" /\ IsTrade(c) => result[c] = FirstViolated(args[c], pre[c])

\* a non-owner traded a ticker that is not priced and got AuthorizationException
C5_Witness ==
  \E c \in Callers :
    /\ pc[c] = "done" /\ IsTrade(c)
    /\ UserOf(args[c]) \in DOMAIN users
    /\ args[c].portfolio_id \in DOMAIN portfolios
    /\ portfolios[args[c].portfolio_id].owner # UserOf(args[c])
    /\ SymbolOf(args[c]) \notin DOMAIN DefaultPriceMap
    /\ result[c] = "AuthorizationException"

\* C6: a buy that returns success, run alone, debits the balance by price * qty,
\* raises holdings[portfolio][ticker] by qty (creating the entry), has the
\* Security registered and appends exactly one BUY Transaction with the user,
\* portfolio, ticker, qty and trade price.
C6_BuyEffect ==
  \A c \in Callers :
    pc[c] = "done" /\ args[c].op = "BUY" /\ result[c] = "ok" => BuyApplied(args[c], pre[c])

\* balance 1000, buy 5 AAPL at 175: balance 125, holdings 5, one BUY of 5 at 175
C6_Witness ==
  \E c \in Callers :
    /\ pc[c] = "done" /\ args[c].op = "BUY" /\ result[c] = "ok"
    /\ pre[c].users["alice"].balance = 1000
    /\ <<1, "AAPL">> \notin DOMAIN pre[c].investments
    /\ "AAPL" \notin pre[c].securities
    /\ users["alice"].balance = 125
    /\ investments[<<1, "AAPL">>] = 5
    /\ ledger = <<[type |-> "BUY", user |-> "alice", portfolio |-> 1, security |-> "AAPL",
                   quantity |-> 5, price |-> 175]>>

\* C7: a sell that returns success, run alone, credits the balance by
\* sale price * qty, lowers holdings[portfolio][ticker] by qty, removes the entry
\* when the result is 0, and appends exactly one SELL Transaction with qty and
\* the sale price.
C7_SellEffect ==
  \A c \in Callers :
    pc[c] = "done" /\ args[c].op = "SELL" /\ result[c] = "ok" => SellApplied(args[c], pre[c])

\* a sell of the whole position at an overriding price returned success and the entry is gone
C7_Witness ==
  \E c \in Callers :
    /\ pc[c] = "done" /\ args[c].op = "SELL" /\ result[c] = "ok"
    /\ args[c].sale_price = Some(0)
    /\ pre[c].investments[<<1, "AAPL">>] = args[c].qty
    /\ <<1, "AAPL">> \notin DOMAIN investments
    /\ Len(ledger) = Len(pre[c].ledger) + 1

\* the sell of caller c undoes the buy that returned just before it
RoundTrip(c) ==
  /\ pc[c] = "done" /\ args[c].op = "SELL" /\ result[c] = "ok"
  /\ last # None
  /\ last[1].args.op = "BUY"
  /\ UserOf(last[1].args) = UserOf(args[c])
  /\ SymbolOf(last[1].args) = SymbolOf(args[c])
  /\ last[1].args.portfolio_id = args[c].portfolio_id
  /\ last[1].args.qty = args[c].qty
  /\ SalePriceOf(args[c]) = DefaultPriceMap[SymbolOf(last[1].args)]

\* C8: a successful buy of qty of X at price P followed at once by a sell of qty
\* of X at P leaves the balance and holdings[portfolio][X] as they were before the
\* buy (no entry if there was none), with one BUY and one SELL transaction added.
C8_BuySellRoundTrip ==
  \A c \in Callers :
    RoundTrip(c) =>
      LET s == last[1].pre
          u == UserOf(args[c])
          k == <<args[c].portfolio_id, SymbolOf(args[c])>>
      IN
      /\ users[u].balance = s.users[u].balance
      /\ (k \in DOMAIN investments) = (k \in DOMAIN s.investments)
      /\ k \in DOMAIN investments => investments[k] = s.investments[k]
      /\ Len(ledger) = Len(s.ledger) + 2
      /\ SubSeq(ledger, 1, Len(s.ledger)) = s.ledger
      /\ ledger[Len(ledger) - 1].type = "BUY" /\ ledger[Len(ledger) - 1].quantity = args[c].qty
      /\ ledger[Len(ledger)].type = "SELL" /\ ledger[Len(ledger)].quantity = args[c].qty

\* a round trip on a ticker the portfolio did not hold before the buy
C8_Witness ==
  \E c \in Callers :
    /\ RoundTrip(c)
    /\ <<args[c].portfolio_id, SymbolOf(args[c])>> \notin DOMAIN last[1].pre.investments
    /\ <<args[c].portfolio_id, SymbolOf(args[c])>> \notin DOMAIN investments

\* C9: when a Directory write fails during a buy or sell the call ends with
\* DataAccessException and balance, holdings and ledger are as before the call.
C9_FailedWriteRolledBack ==
  \A c \in Callers :
    pc[c] = "done" /\ IsTrade(c) /\ loc[c].write_failed =>
      result[c] = "DataAccessException" /\ Unapplied(pre[c])

\* C10: while a buy or sell is in progress the Directory shows either none or
\* all of its three mutations (balance, holdings, ledger).
C10_AllOrNothingVisible ==
  \A c \in Callers :
    pc[c] # "idle" /\ IsTrade(c) =>
      \/ Unapplied(pre[c])
      \/ args[c].op = "BUY" /\ BuyApplied(args[c], pre[c])
      \/ args[c].op = "SELL" /\ SellApplied(args[c], pre[c])

\* C2: after every delete_user that committed, in a sequence of add_user and
\* delete_user calls made one at a time, at least one admin is left.
C2_AdminLeftAfterDelete ==
  \A c \in Callers :
    pc[c] = "done" /\ args[c].op = "delete_user" /\ result[c] = "ok" => admin_count >= 1

\* one of two admins was deleted, the other one is left
C2_Witness ==
  \E c \in Callers :
    /\ pc[c] = "done" /\ args[c].op = "delete_user" /\ result[c] = "ok"
    /\ pre[c].users[Strip(args[c].username)].role = "admin"
    /\ admin_count = 1

\* C3: in every state reachable by add_user, delete_user and change_role calls
\* at least one user has role admin.
C3_AlwaysAnAdmin == admin_count >= 1

\* C4: of two delete_user calls that run concurrently on the only two admins at
\* most one passes the count check, and an admin is left.
C4_ConcurrentDeletesKeepAnAdmin ==
  /\ ~ \E c, d \in Callers :
         /\ c # d
         /\ pc[c] = "delete_commit" /\ pc[d] = "delete_commit"
         /\ loc[c].role = "admin" /\ loc[d].role = "admin"
         /\ Strip(args[c].username) # Strip(args[d].username)
         /\ admin_count = 2
  /\ admin_count >= 1

RECURSIVE LedgerCash(_, _)
\* what the transactions of ledger l add to the balance of user u
LedgerCash(l, u) ==
  IF l = << >> THEN 0
  ELSE LET t == Head(l)
           amount == IF t.user = u THEN t.price * t.quantity ELSE 0
       IN (IF t.type = "BUY" THEN 0 - amount ELSE amount) + LedgerCash(Tail(l), u)

RECURSIVE LedgerShares(_, _, _)
\* what the transactions of ledger l add to the holdings of ticker in portfolio_id
LedgerShares(l, portfolio_id, ticker) ==
  IF l = << >> THEN 0
  ELSE LET t == Head(l)
           n == IF t.portfolio = portfolio_id /\ t.security = ticker THEN t.quantity ELSE 0
       IN (IF t.type = "BUY" THEN n ELSE 0 - n) + LedgerShares(Tail(l), portfolio_id, ticker)

\* C11: once all of the concurrent buy and sell calls have returned, every
\* balance is the initial balance minus price * qty of the BUYs that returned
\* success plus price * qty of the SELLs that did, every holdings quantity is the
\* initial one plus the shares bought minus the shares sold, and that is never
\* below 0 (no more shares sold than held).
C11_LedgerReconciles ==
  AllIdle =>
    /\ \A u \in DOMAIN users :
         users[u].balance = initial.users[u].balance + LedgerCash(ledger, u)
    /\ \A p \in DOMAIN portfolios : \A t \in DOMAIN DefaultPriceMap :
         /\ Held(Snapshot, p, t) = Held(initial, p, t) + LedgerShares(ledger, p, t)
         /\ Held(initial, p, t) + LedgerShares(ledger, p, t) >= 0

\* C12: a buy that fails with InsufficientFundsException, or a sell that fails
\* with InsufficientSharesException, leaves users, holdings, the ledger and the
\* registered securities exactly as they were before the call.
C12_FailedTradeMutatesNothing ==
  \A c \in Callers :
    pc[c] = "done" /\ IsTrade(c)
    /\ result[c] \in {"InsufficientFundsException", "InsufficientSharesException"}
    => Snapshot = pre[c]

\* the sell of caller c passes every precondition that comes before the check
\* of the shares, and asks for more shares than the portfolio holds
Oversell(c) ==
  /\ pc[c] = "done" /\ args[c].op = "SELL"
  /\ ValidateTrade(args[c]) = "ok"
  /\ UserOf(args[c]) \in DOMAIN pre[c].users
  /\ args[c].portfolio_id \in DOMAIN pre[c].portfolios
  /\ pre[c].portfolios[args[c].portfolio_id].owner = UserOf(args[c])
  /\ SymbolOf(args[c]) \in DOMAIN DefaultPriceMap
  /\ Held(pre[c], args[c].portfolio_id, SymbolOf(args[c])) < args[c].qty

\* C13: a sell of more shares than holdings[portfolio][ticker] contains (0 when
\* there is no entry) fails with InsufficientSharesException; balance, holdings
\* and ledger are unchanged.
C13_OversellRejected ==
  \A c \in Callers :
    Oversell(c) => result[c] = "InsufficientSharesException" /\ Unapplied(pre[c])

\* sells of 5 were rejected: one of a ticker the portfolio has no entry for,
\* one of a ticker it holds 2 of
C13_Witness ==
  \E c \in Callers :
    /\ Oversell(c)
    /\ args[c].qty = 5
    /\ result[c] = "InsufficientSharesException"
    /\ \/ <<1, SymbolOf(args[c])>> \notin DOMAIN pre[c].investments
       \/ Held(pre[c], 1, SymbolOf(args[c])) = 2

\* C14: a buy or sell of which a Directory write did not persist does not
\* return success.
C14_NoSuccessAfterFailedWrite ==
  \A c \in Callers :
    pc[c] = "done" /\ IsTrade(c) /\ loc[c].write_failed => result[c] # "ok"

\* the admins of Directory state s
AdminsOf(s) == {u \in DOMAIN s.users : s.users[u].role = "admin"}

\* C15: delete_user(username) ends in one of three ways: UserNotFoundException
\* when there is no such user; AdminProtectionException with nothing changed
\* when the user is an admin and at most one admin exists; otherwise the user is
\* removed and the call succeeds.
C15_DeleteUserOutcomes ==
  \A c \in Callers :
    pc[c] = "done" /\ args[c].op = "delete_user" /\ Strip(args[c].username) # "" =>
      LET u == Strip(args[c].username)
          s == pre[c]
      IN
      IF u \notin DOMAIN s.users
      THEN result[c] = "UserNotFoundException" /\ Snapshot = s
      ELSE IF s.users[u].role = "admin" /\ Cardinality(AdminsOf(s)) <= 1
      THEN result[c] = "AdminProtectionException" /\ Snapshot = s
      ELSE result[c] = "ok" /\ users = Remove(s.users, u)

\* of two admins one was deleted before, and the delete of the one that is left
\* is refused
C15_Witness ==
  \E c \in Callers :
    /\ pc[c] = "done" /\ args[c].op = "delete_user"
    /\ result[c] = "AdminProtectionException"
    /\ Cardinality(AdminsOf(initial)) = 2
    /\ AdminsOf(pre[c]) = {Strip(args[c].username)}
    /\ Strip(args[c].username) \in DOMAIN users

\* the failures that are validation errors
ValidationErrors ==
  {"ValidationException", "InvalidUsernameException", "InvalidPasswordException",
   "InvalidRoleException"}

\* the arguments a are malformed: blank username, quantity not positive,
\* negative sale price, blank password, or a role that is neither user nor admin
InvalidInput(a) ==
  \/ Strip(a.username) = ""
  \/ a.op \in {"BUY", "SELL"} /\ a.qty <= 0
  \/ a.op = "SELL" /\ a.sale_price # None /\ a.sale_price[1] < 0
  \/ a.op = "add_user" /\ Strip(a.password) = ""
  \/ a.op \in {"add_user", "change_role"} /\ a.role \notin {"user", "admin"}

\* C16: a buy, sell, add_user, delete_user or change_role call with malformed
\* arguments ends with a validation error, and every validation error is raised
\* by the step that enters the call, before any Directory read or write, the
\* Directory unchanged.
C16_ValidationBeforeDirectory ==
  [][\A c \in Callers :
       pc[c] # "done" /\ pc'[c] = "done"
       /\ (InvalidInput(args'[c]) \/ result'[c] \in ValidationErrors)
       => /\ result'[c] \in ValidationErrors
          /\ pc[c] = "idle"
          /\ dbvars' = dbvars]_vars

\* after a trade of alice, her sell at a negative price and an add_user with
\* an unknown role were rejected with the Directory as it was
C16_Witness ==
  \E c \in Callers :
    /\ pc[c] = "done"
    /\ result[c] \in ValidationErrors
    /\ InvalidInput(args[c])
    /\ \/ args[c].op = "SELL" /\ args[c].sale_price = Some(-1) /\ args[c].qty = 2
          /\ Strip(args[c].username) = "alice"
       \/ args[c].op = "add_user" /\ args[c].role = "root"
    /\ Snapshot = pre[c]
    /\ Len(ledger) = 2

\* the authenticate call of caller c names a user whose stored credential is
\* plain text, and supplies that text
LegacyLogin(c) ==
  /\ pc[c] = "done" /\ args[c].op = "authenticate"
  /\ Strip(args[c].username) \in DOMAIN pre[c].users
  /\ ~ IsHashed(pre[c].users[Strip(args[c].username)].password)
  /\ pre[c].users[Strip(args[c].username)].password = <<args[c].password>>

\* C17: authenticate on a user whose stored credential is plain text compares
\* the supplied password with it directly; when they are equal the call returns
\* success and the stored credential has been replaced by its hashed form.
C17_LegacyCredentialUpgraded ==
  \A c \in Callers :
    LegacyLogin(c) =>
      /\ result[c] = "ok"
      /\ users[Strip(args[c].username)].password = hash_password(args[c].password)

\* the password verifies against the stored credential: against a digest by
\* the digest's own check, against a plain text by equality
Verifies(password, stored) ==
  IF IsHashed(stored) THEN stored = hash_password(password) ELSE stored = <<password>>

\* the outcome r (with the user returned, if any) of authenticate with
\* arguments a in Directory state s is the one the claim gives
AuthOutcome(a, s, r, returned) ==
  IF a.username = "" \/ a.password = "" THEN r = "ValidationException"
  ELSE IF /\ Strip(a.username) \in DOMAIN s.users
          /\ Verifies(a.password, s.users[Strip(a.username)].password)
       THEN r = "ok" /\ returned = Some(s.users[Strip(a.username)])
       ELSE r = "InvalidCredentialsException"

\* C18: authenticate returns the user exactly when a user with the trimmed
\* username exists and the password verifies against the stored credential,
\* fails with InvalidCredentialsException when the user is absent or the
\* password does not match, with ValidationException when username or password
\* is empty, and no step of it changes the Directory or the logged-in user.
C18_AuthenticateOutcome ==
  [][\A c \in Callers :
       args'[c].op = "authenticate" /\ pc'[c] # pc[c] /\ pc'[c] \in {"auth_query", "done"}
       => /\ dbvars' = dbvars
          /\ current_user' = current_user
          /\ pc'[c] = "done" => AuthOutcome(args'[c], Snapshot, result'[c], loc'[c].user)]_vars

\* C19: add_user fails with UniqueConstraintError, the users unchanged, whenever
\* a user with the trimmed username exists (when the call starts or when it
\* writes); a call that succeeds adds exactly one user under a username that
\* was free, so no two users ever share a username.
C19_UniqueUsernames ==
  [][\A c \in Callers :
       args'[c].op = "add_user" /\ pc[c] # "done" /\ pc'[c] = "done"
       /\ ~ InvalidInput(args'[c])
       => LET u == Strip(args'[c].username) IN
          /\ (u \in DOMAIN pre'[c].users \/ u \in DOMAIN users)
             => result'[c] = "UniqueConstraintError" /\ users' = users
          /\ result'[c] = "ok"
             => /\ u \notin DOMAIN users
                /\ DOMAIN users' = DOMAIN users \cup {u}
                /\ \A v \in DOMAIN users : users'[v] = users[v]]_vars

\* two concurrent add_user calls for the same trimmed username both found it
\* free; one created the user, the other one failed
C19_Witness ==
  \E c, d \in Callers :
    /\ c # d
    /\ pc[c] = "done" /\ pc[d] = "done"
    /\ args[c].op = "add_user" /\ args[d].op = "add_user"
    /\ args[c].username # args[d].username
    /\ Strip(args[c].username) = Strip(args[d].username)
    /\ Strip(args[c].username) \notin DOMAIN pre[c].users
    /\ Strip(args[d].username) \notin DOMAIN pre[d].users
    /\ result[c] = "ok" /\ result[d] = "UniqueConstraintError"
    /\ Strip(args[c].username) \in DOMAIN users

\* the positive positions <<portfolio id, ticker, quantity>> that the portfolios
\* owned by user u hold in Directory state s
OwnedPositions(s, u) ==
  {<<k[1], k[2], s.investments[k]>> :
     k \in {j \in DOMAIN s.investments :
              s.portfolios[j[1]].owner = u /\ s.investments[j] > 0}}

RECURSIVE Proceeds(_)
\* the oracle price * quantity, summed over the positions P
Proceeds(P) ==
  IF P = {} THEN 0
  ELSE LET pos == CHOOSE q \in P : TRUE
       IN DefaultPriceMap[pos[2]] * pos[3] + Proceeds(P \ {pos})

RECURSIVE Shares(_, _)
\* the quantity of ticker t, summed over the positions P
Shares(P, t) ==
  IF P = {} THEN 0
  ELSE LET pos == CHOOSE q \in P : TRUE
       IN (IF pos[2] = t THEN pos[3] ELSE 0) + Shares(P \ {pos}, t)

\* the liquidate_investments call of caller c has returned; it named a user who
\* owns portfolios, and every ticker held in them is priced
Liquidated(c) ==
  /\ pc[c] = "done" /\ args[c].op = "liquidate"
  /\ Strip(args[c].username) \in DOMAIN pre[c].users
  /\ \E p \in DOMAIN pre[c].portfolios : pre[c].portfolios[p].owner = Strip(args[c].username)
  /\ \A pos \in OwnedPositions(pre[c], Strip(args[c].username)) : pos[2] \in DOMAIN DefaultPriceMap

\* C20: liquidate_investments(username), every held ticker priced, sells every
\* positive holding of every portfolio of the user at the oracle price: the
\* portfolios end empty, the balance has grown by the sum of price * qty over
\* the positions, the ledger has one more SELL per position, and the report
\* gives every symbol as sold with its quantity.
C20_LiquidateAll ==
  \A c \in Callers :
    Liquidated(c) =>
      LET u == Strip(args[c].username)
          sold == OwnedPositions(pre[c], u)
          added == SubSeq(ledger, Len(pre[c].ledger) + 1, Len(ledger))
      IN
      /\ OwnedPositions(Snapshot, u) = {}
      /\ \A k \in DOMAIN investments : portfolios[k[1]].owner # u
      /\ users[u].balance = pre[c].users[u].balance + Proceeds(sold)
      /\ SubSeq(ledger, 1, Len(pre[c].ledger)) = pre[c].ledger
      /\ Len(added) = Cardinality(sold)
      /\ \A pos \in sold : \E i \in 1..Len(added) :
           added[i] = [type |-> "SELL", user |-> u, portfolio |-> pos[1], security |-> pos[2],
                       quantity |-> pos[3], price |-> DefaultPriceMap[pos[2]]]
      /\ result[c] = "report"
      /\ DOMAIN loc[c].report = {pos[2] : pos \in sold}
      /\ \A t \in DOMAIN loc[c].report :
           loc[c].report[t].ok /\ loc[c].report[t].sold = Shares(sold, t)

\* the liquidate_investments call of caller c has returned, and the portfolios
\* of the user it was called for held a ticker that has no price
LiquidatedWithUnpriced(c) ==
  /\ pc[c] = "done" /\ args[c].op = "liquidate"
  /\ \E pos \in OwnedPositions(pre[c], args[c].username) : pos[2] \notin DOMAIN DefaultPriceMap

\* C21: in liquidate_investments a position whose sell fails because the ticker
\* has no price is reported as a failure for its symbol and stays as it was;
\* every other position of the user is sold all the same, and the call returns
\* its report.
C21_LiquidatePartialFailure ==
  \A c \in Callers :
    LiquidatedWithUnpriced(c) =>
      LET u == args[c].username
          held == OwnedPositions(pre[c], u)
          priced == {pos \in held : pos[2] \in DOMAIN DefaultPriceMap}
      IN
      /\ result[c] = "report"
      /\ \A pos \in held \ priced :
           /\ pos[2] \in DOMAIN loc[c].report
           /\ ~ loc[c].report[pos[2]].ok
           /\ loc[c].report[pos[2]].reason = "SecurityNotAvailableException"
           /\ Held(Snapshot, pos[1], pos[2]) = pos[3]
      /\ \A pos \in priced :
           /\ <<pos[1], pos[2]>> \notin DOMAIN investments
           /\ \E i \in (Len(pre[c].ledger) + 1)..Len(ledger) :
                ledger[i] = [type |-> "SELL", user |-> u, portfolio |-> pos[1],
                             security |-> pos[2], quantity |-> pos[3],
                             price |-> DefaultPriceMap[pos[2]]]
           /\ pos[2] \in DOMAIN loc[c].report /\ loc[c].report[pos[2]].ok
      /\ users[u].balance = pre[c].users[u].balance + Proceeds(priced)

\* ZZZZ of portfolio 1 was not sold, AAPL of portfolio 1 and GOOGL of portfolio 3 were
C21_Witness ==
  \E c \in Callers :
    /\ LiquidatedWithUnpriced(c)
    /\ result[c] = "report"
    /\ investments = (<<1, "ZZZZ">> :> 4)
    /\ ~ loc[c].report["ZZZZ"].ok
    /\ loc[c].report["AAPL"].ok /\ loc[c].report["GOOGL"].ok
    /\ Len(ledger) = 2

\* the SELL transaction of the sell with arguments a at price
SellAt(a, price) ==
  [type |-> "SELL", user |-> UserOf(a), portfolio |-> a.portfolio_id,
   security |-> SymbolOf(a), quantity |-> a.qty, price |-> price]

\* C22 (as amended): a sell with a negative sale_price is rejected with
\* ValidationException and changes nothing; a sell that succeeds credits the
\* balance with, and records, the sale_price when one is supplied and the price
\* map's price of the ticker when none is.
C22_SalePriceUsed ==
  \A c \in Callers :
    pc[c] = "done" /\ args[c].op = "SELL" =>
      /\ (args[c].sale_price # None /\ args[c].sale_price[1] < 0)
         => result[c] = "ValidationException" /\ Snapshot = pre[c]
      /\ result[c] = "ok"
         => LET price == IF args[c].sale_price # None
                         THEN args[c].sale_price[1]
                         ELSE DefaultPriceMap[SymbolOf(args[c])]
            IN /\ price >= 0
               /\ users[UserOf(args[c])].balance =
                    pre[c].users[UserOf(args[c])].balance + price * args[c].qty
               /\ ledger = Append(pre[c].ledger, SellAt(args[c], price))

\* alice sold shares she holds at a negative sale_price and was rejected
C22_Witness ==
  \E c \in Callers :
    /\ pc[c] = "done" /\ args[c].op = "SELL"
    /\ args[c].sale_price = Some(-1)
    /\ FirstViolated([args[c] EXCEPT !.sale_price = None], pre[c]) = "ok"
    /\ result[c] = "ValidationException"
    /\ Snapshot = pre[c]

\* C22 (as stated): the price a sell trades at is the sale_price when one is
\* supplied and is >= 0, and the price map's price in every other case, a
\* negative sale_price included.
C22_NegativePriceFallsBack ==
  \A c \in Callers :
    /\ pc[c] = "done" /\ args[c].op = "SELL"
    /\ FirstViolated([args[c] EXCEPT !.sale_price = None], pre[c]) = "ok"
    => LET price == IF args[c].sale_price # None /\ args[c].sale_price[1] >= 0
                    THEN args[c].sale_price[1]
                    ELSE DefaultPriceMap[SymbolOf(args[c])]
       IN /\ result[c] = "ok"
          /\ users[UserOf(args[c])].balance =
               pre[c].users[UserOf(args[c])].balance + price * args[c].qty
          /\ ledger = Append(pre[c].ledger, SellAt(args[c], price))

\* C23: change_role(username, new_role) rejects a role that is neither user nor
\* admin with a validation error whether or not the user exists, fails with
\* UserNotFoundException when the role is valid and the user absent, and
\* otherwise sets the role of exactly that user, every other user, balance,
\* portfolio, holding and transaction unchanged.
C23_ChangeRoleOutcome ==
  \A c \in Callers :
    pc[c] = "done" /\ args[c].op = "change_role" /\ Strip(args[c].username) # "" =>
      LET u == Strip(args[c].username)
          s == pre[c]
      IN
      IF args[c].role \notin {"user", "admin"}
      THEN result[c] = "InvalidRoleException" /\ Snapshot = s
      ELSE IF u \notin DOMAIN s.users
      THEN result[c] = "UserNotFoundException" /\ Snapshot = s
      ELSE /\ result[c] = "ok"
           /\ Snapshot = [s EXCEPT !.users = [s.users EXCEPT ![u].role = args[c].role]]

\* an unknown role for a user that does not exist was rejected as invalid, and
\* before that the role of an existing user was changed
C23_Witness ==
  \E c \in Callers :
    /\ pc[c] = "done" /\ args[c].op = "change_role"
    /\ args[c].role = "root"
    /\ Strip(args[c].username) \notin DOMAIN pre[c].users
    /\ Strip(args[c].username) # ""
    /\ result[c] = "InvalidRoleException"
    /\ \E u \in DOMAIN users : u \in DOMAIN initial.users /\ users[u].role # initial.users[u].role

\* C24: update_portfolio and delete_portfolio change a portfolio only when the
\* acting user owns it or has the role admin; every other call (actor unknown,
\* actor neither owner nor admin, no actor supplied) returns False and leaves
\* the portfolio and its holdings unchanged.
PortfolioOp(c) == args[c].op \in {"update_portfolio", "delete_portfolio"}

Authorized(c) ==
  LET a == args[c].actor_username
      s == pre[c]
  IN /\ a # None
     /\ Strip(a[1]) \in DOMAIN s.users
     /\ args[c].pid \in DOMAIN s.portfolios
     /\ \/ s.portfolios[args[c].pid].owner = Strip(a[1])
        \/ s.users[Strip(a[1])].role = "admin"

C24_OwnerOrAdminOnly ==
  \A c \in Callers :
    pc[c] = "done" /\ PortfolioOp(c) /\ ~ Authorized(c) =>
      result[c] = "False" /\ Snapshot = pre[c]

\* C25: the ledger is append-only: whatever operation runs (buy, sell,
\* liquidate_investments, add_user, delete_user, change_role, create_portfolio,
\* delete_portfolio), every step leaves the recorded transactions in place and
\* unchanged, and at most adds new ones after them.
IsPrefix(s, t) == Len(s) <= Len(t) /\ SubSeq(t, 1, Len(s)) = s

C25_LedgerAppendOnly == [][IsPrefix(ledger, ledger')]_vars

\* C26: the price table is the table of the latest set_test_price_map call,
\* whole, until clear_test_price_map restores the ten-ticker default: a buy or
\* sell of a ticker the table in force does not hold fails with
\* SecurityNotAvailableException and changes nothing, also for a default ticker
\* the override leaves out; a ticker it holds is tradeable and a successful
\* trade is priced from it.
TableInForce == IF test_price_map = None THEN DefaultPriceMap ELSE test_price_map[1]

C26_PriceTable ==
  /\ get_price_map = TableInForce
  /\ test_price_map = None =>
       DOMAIN get_price_map = {"AAPL", "GOOGL", "MSFT", "TSLA", "AMZN",
                               "NVDA", "META", "NFLX", "SPOT", "UBER"}
  /\ \A c \in Callers :
       pc[c] = "done" /\ args[c].op \in {"BUY", "SELL"} =>
         LET t == SymbolOf(args[c]) IN
         IF t \notin DOMAIN TableInForce
         THEN result[c] = "SecurityNotAvailableException" /\ Snapshot = pre[c]
         ELSE /\ result[c] # "SecurityNotAvailableException"
              /\ result[c] = "ok" =>
                   /\ Len(ledger) = Len(pre[c].ledger) + 1
                   /\ ledger[Len(ledger)].price =
                        IF args[c].op = "SELL" /\ args[c].sale_price # None
                        THEN args[c].sale_price[1]
                        ELSE TableInForce[t]

\* under an override that prices UBER only, UBER was bought at the override
\* price and a trade of the default ticker AAPL is refused
C26_Witness ==
  \E c \in Callers :
    /\ pc[c] = "done" /\ args[c].op \in {"BUY", "SELL"}
    /\ test_price_map = Some([t \in {"UBER"} |-> 50])
    /\ SymbolOf(args[c]) = "AAPL"
    /\ result[c] = "SecurityNotAvailableException"
    /\ Len(ledger) = 1 /\ ledger[1].security = "UBER" /\ ledger[1].price = 50

\* C27: once add_user(username, password, ...) has succeeded, the authenticate
\* call that follows with the very same username and password succeeds and
\* returns that user, also for a password with surrounding whitespace and for a
\* password that begins with "$2".
C27_CreateThenAuthenticate ==
  \A c \in Callers :
    /\ pc[c] = "done" /\ args[c].op = "authenticate"
    /\ last # None /\ last[1].args.op = "add_user"
    /\ args[c].username = last[1].args.username
    /\ args[c].password = last[1].args.password
    => /\ result[c] = "ok"
       /\ loc[c].user = Some(users[Strip(args[c].username)])

\* C28: starting from no holdings and no transactions, whenever no call is in
\* progress the quantity held of every ticker in every portfolio is the sum of
\* the BUY quantities minus the sum of the SELL quantities the ledger records
\* for that portfolio and ticker, whichever entry point changed the holdings
\* (buy, sell, liquidate_investments, POST /portfolios/<id>/securities,
\* DELETE /portfolios/<id>/securities/<ticker>).
C28_HoldingsFollowLedger ==
  AllIdle =>
    \A p \in DOMAIN portfolios : \A t \in {"AAPL", "UBER"} :
      Held(Snapshot, p, t) = LedgerShares(ledger, p, t)

RECURSIVE ReportedSold(_, _)
\* the quantities the report gives as sold, summed over the symbols S
ReportedSold(report, S) ==
  IF S = {} THEN 0
  ELSE LET t == CHOOSE x \in S : TRUE
       IN (IF report[t].ok THEN report[t].sold ELSE 0) + ReportedSold(report, S \ {t})

RECURSIVE TotalShares(_)
\* the quantities of the positions P, summed
TotalShares(P) ==
  IF P = {} THEN 0
  ELSE LET pos == CHOOSE q \in P : TRUE IN pos[3] + TotalShares(P \ {pos})

\* C29: the quantities that the report of liquidate_investments gives as sold
\* add up to the number of shares the call removed from the portfolios of the
\* user, also when two of the portfolios hold the same ticker.
C29_ReportAddsUp ==
  \A c \in Callers :
    pc[c] = "done" /\ args[c].op = "liquidate" /\ result[c] = "report" =>
      ReportedSold(loc[c].report, DOMAIN loc[c].report)
        = TotalShares(OwnedPositions(pre[c], args[c].username))
          - TotalShares(OwnedPositions(Snapshot, args[c].username))

\* C30: a buy or sell by user u on portfolio p and ticker t, whether it succeeds
\* or fails, leaves as they were the balance and role of every other user, the
\* role of u, every holdings entry other than (p, t), the owner and name of
\* every portfolio, and every transaction recorded before the call.
C30_TradeFrame ==
  \A c \in Callers :
    pc[c] = "done" /\ IsTrade(c) =>
      LET u == UserOf(args[c])
          k == <<args[c].portfolio_id, SymbolOf(args[c])>>
          s == pre[c]
      IN
      /\ DOMAIN users = DOMAIN s.users
      /\ \A v \in DOMAIN users :
           /\ users[v].role = s.users[v].role
           /\ v # u => users[v].balance = s.users[v].balance
      /\ \A j \in ((DOMAIN investments) \cup (DOMAIN s.investments)) \ {k} :
           /\ j \in DOMAIN investments /\ j \in DOMAIN s.investments
           /\ investments[j] = s.investments[j]
      /\ portfolios = s.portfolios
      /\ IsPrefix(s.ledger, ledger)

\* alice sold AAPL out of portfolio 1 after she had bought UBER into it: her
\* balance and the AAPL entry changed while the UBER entry, the other users and
\* the BUY transaction stayed
C30_Witness ==
  \E c \in Callers :
    /\ pc[c] = "done" /\ args[c].op = "SELL" /\ result[c] = "ok"
    /\ UserOf(args[c]) = "alice" /\ SymbolOf(args[c]) = "AAPL"
    /\ users["alice"].balance # pre[c].users["alice"].balance
    /\ <<1, "UBER">> \in DOMAIN pre[c].investments
    /\ Len(pre[c].ledger) = 1
    /\ Len(ledger) = 2

====
